---- MODULE Spec2Model ----
(***************************************************************************)
(* Event-reaction pipeline of Triply: the moderation decision engine       *)
(* (moderatePostIfNeeded and its two triggers), the like, comment and      *)
(* follow counter handlers and the notification handlers, each as a state  *)
(* machine over the documents it reads and writes.                         *)
(***************************************************************************)
EXTENDS Integers, Sequences, FiniteSets, Bags, TLC

VARIABLES
  post,         \* posts/{postId}: the one post document of the moderation model
  postEvents,   \* posts/{postId}/postEvents: set of audit event documents
  adminNotif,   \* adminNotifications/review_<postId>
  userNotifs,   \* notifications/{authorId}/items: moderation notifications
  events,       \* change events of posts/{postId} on which a trigger starts work
  invs,         \* bag of the moderatePostIfNeeded invocations in flight
  lastOutcome,  \* how the invocation that returned last ended
  lastAnswers,  \* the classifier messages of the transaction just applied
  statusBy,     \* who wrote the post's status last: author, admin or engine
  likeCount,    \* posts/{postId}.likeCount
  likes,        \* posts/{postId}/likes: ids of the users who like the post
  likeEvents,   \* change events of the likes subcollection
  likeHandled,  \* per like event: number of handled deliveries
  notifItems,   \* notifications/{uid}/items written by createNotificationIfNotDuplicated
  now,          \* server clock, in minutes
  users,        \* users/{uid}: exists, followingCount, followersCount
  following,    \* users/{a}/following/{b}: set of edges <<a, b>>
  followEvents, \* change events of the following subcollections
  followHandled, \* per follow event: number of handled deliveries
  commentCount, \* posts/{postId}.commentCount
  comments,     \* posts/{postId}/comments: ids of the comment documents
  commentEvents, \* change events of the comments subcollection
  commentHandled, \* per comment event: number of handled deliveries
  commentOutcome, \* how the comment handler that ran last ended
  followNotifStarted, \* bag of the follower-created events delivered so far
  followNotifRuns, \* bag of follow notification handlers waiting on the create
  adminNotifyStarted, \* bag of the postEvents created events delivered so far
  adminNotifyRuns, \* bag of onAdminModerationEventNotifyAuthor runs at the create
  auditEvents,  \* change events of posts/{postId} on which an audit reactor appends
  auditStarted, \* bag of the audit change events delivered so far
  auditRuns,    \* bag of the audit reactor runs waiting on an addPostEvent
  callInput,    \* what the function call under examination was given
  callResult    \* what that call made of it: a result, or it throws

modVars == <<post, postEvents, adminNotif, userNotifs, events, invs, lastOutcome,
            lastAnswers, statusBy, auditEvents>>
likeVars == <<likeCount, likes, likeEvents, likeHandled, notifItems, now>>
followVars == <<users, following, followEvents, followHandled>>
commentVars == <<commentCount, comments, commentEvents, commentHandled,
                commentOutcome>>
followNotifVars == <<followNotifStarted, followNotifRuns>>
adminNotifyVars == <<adminNotifyStarted, adminNotifyRuns>>
auditVars == <<auditStarted, auditRuns>>
callVars == <<callInput, callResult>>
notModVars == <<likeVars, followVars, commentVars, followNotifVars, adminNotifyVars,
                auditVars, callVars>>
notLikeVars == <<modVars, followVars, commentVars, followNotifVars, adminNotifyVars,
                 auditVars, callVars>>
notFollowVars == <<modVars, likeVars, commentVars, followNotifVars, adminNotifyVars,
                   auditVars, callVars>>
vars == <<post, postEvents, adminNotif, userNotifs, events, invs, lastOutcome,
          lastAnswers, statusBy, likeCount, likes, likeEvents, likeHandled,
          notifItems, now,
          users, following, followEvents, followHandled,
          commentCount, comments, commentEvents, commentHandled, commentOutcome,
          followNotifStarted, followNotifRuns, adminNotifyStarted, adminNotifyRuns,
          auditEvents, auditStarted, auditRuns, callInput, callResult>>

\* ---------------------------------------------------------------- bounds
MaxAdminActions == 1
MaxInFlight == 2
MaxLikeEvents == 3
MaxFollowEvents == 3
MaxCommentEvents == 3
MaxDeliveries == 2
MaxTime == 15
TickMinutes == 5

PostId == "p1"
AuthorId == "author"
AdminId == "admin"
UserIds == {AuthorId, "u1"}

Decisions == {"ALLOW", "REVIEW", "BLOCK"}

\* ------------------------------------------------- moderation: helpers
\* A text sub-record that never counts as checked.
hasTextCheckedAtNever(data) == data.text = "never"

hasTextCheckedAt(data) == data.text # "none"

\* An image sub-record that never counts as checked.
hasImageCheckedAtNever(data) == data.image = "never"

hasImageCheckedAt(data) == data.image # "none"

extractPhotoStoragePath(data) == IF data.photo THEN "path" ELSE "null"

deterministicEventId(eventId, suffix) == <<eventId, suffix>>

\* An outcome type that is ai_flagged whatever the decision.
outcomeEventTypeAlwaysFlagged(decision) == "ai_flagged"

outcomeEventType(decision) ==
  IF decision = "ALLOW" THEN "ai_approved"
  ELSE IF decision = "BLOCK" THEN "ai_rejected"
  ELSE "ai_flagged"

\* A combination that ignores the image decision.
combineDecisionsTextOnly(textDecision, imageDecision) == textDecision

combineDecisions(textDecision, imageDecision) ==
  IF textDecision = "BLOCK" \/ imageDecision = "BLOCK" THEN "BLOCK"
  ELSE IF textDecision = "REVIEW" \/ imageDecision = "REVIEW" THEN "REVIEW"
  ELSE "ALLOW"

userNotificationDocId(type, postId) == <<type, postId>>

\* Firestore set(ref, data, {merge: false}) on a collection kept as a set of
\* documents with an id field: the document at that id is replaced.
SetDoc(col, d) == {x \in col : x.id # d.id} \cup {d}

\* ---------------------------------------------------------------- strings
\* A string is the sequence of its characters. Null stands for null, for an
\* absent field and for the empty string, which the code treats alike
\* wherever a rejection reason is read.
Null == <<>>

MaxMessageLen == 242

\* A slice that cuts nothing.
sliceWhole(str, start, end) == str

\* String.prototype.slice(start, end) for 0 <= start <= end.
slice(str, start, end) ==
  SubSeq(str, start + 1, IF end < Len(str) THEN end ELSE Len(str))

RECURSIVE trimStart(_)
trimStart(str) ==
  IF str # <<>> /\ Head(str) = " " THEN trimStart(Tail(str)) ELSE str

RECURSIVE trimEnd(_)
trimEnd(str) ==
  IF str # <<>> /\ str[Len(str)] = " " THEN trimEnd(SubSeq(str, 1, Len(str) - 1))
  ELSE str

\* String.prototype.trim().
trim(str) == trimEnd(trimStart(str))

asNonEmptyString(value) == IF trim(value) # <<>> THEN trim(value) ELSE Null

\* 'Treść narusza zasady społeczności.' (diacritics dropped, one character each)
TextFallbackReason ==
  <<"T", "r", "e", "s", "c", " ", "n", "a", "r", "u", "s", "z",
    "a", " ", "z", "a", "s", "a", "d", "y", " ", "s", "p", "o",
    "l", "e", "c", "z", "n", "o", "s", "c", "i", ".">>

\* 'Zdjęcie narusza zasady społeczności.'
ImageFallbackReason ==
  <<"Z", "d", "j", "e", "c", "i", "e", " ", "n", "a", "r", "u",
    "s", "z", "a", " ", "z", "a", "s", "a", "d", "y", " ", "s",
    "p", "o", "l", "e", "c", "z", "n", "o", "s", "c", "i", ".">>

\* The rejectionReason / rejectionReasonPL field of a classifier's JSON answer:
\* absent, or a message. The long message starts with a blank and, once that
\* is trimmed, is longer than the limit with a blank as its 240th character.
LongMessage(c) ==
  [i \in 1..MaxMessageLen |-> IF i = 1 \/ i = 241 THEN " " ELSE c]

TextRawMessages == {Null, <<"t", "x", "t">>}

ImageRawMessages == {Null, LongMessage("i")}

\* The meta map of a review-queue entry: its categories (pairs of a key and a
\* score in hundredths) and its score. A key the entry does not carry is the
\* empty map or the score 0: the engine writes neither.
NoMeta == [categories |-> {}, score |-> 0]

\* No transaction has just been applied.
NoAnswers ==
  [text |-> Null, image |-> Null, object |-> [state |-> "none", sizeBytes |-> 0],
   category |-> "none", meta |-> NoMeta]

\* The reason an administrator types into the reject dialog.
AdminReason == <<" ", "s", "p", "a", "m">>

\* A lookup that finds no document.
DocExistsNever(col, id) == id \in {}

DocExists(col, id) == \E x \in col : x.id = id

NoPost ==
  [exists |-> FALSE, status |-> "none", authorId |-> "none", photo |-> FALSE,
   text |-> "none", image |-> "none", rejectionReason |-> Null,
   autoModerated |-> FALSE]

NoAdminNotif ==
  [exists |-> FALSE, type |-> "none", postId |-> "none", read |-> FALSE,
   meta |-> NoMeta, createdAt |-> 0]

\* ------------------------------------------------ moderation: triggers
\* One moderatePostIfNeeded invocation: the event it was started on, the await
\* it is at (pc) and the classifier calls it makes. The answers of the calls
\* are read by nothing before the transaction: they are drawn there (Results).
Invocation(eventId, pc, needText, needImage) ==
  [eventId |-> eventId, pc |-> pc, needText |-> needText, needImage |-> needImage]

\* An engine that starts its work on every pending snapshot, with nothing
\* outstanding too.
moderatePostIfNeededNoSkip(eventId, afterData) ==
  IF afterData.status # "pending"
  THEN Invocation(eventId, "skipped", FALSE, FALSE)
  ELSE LET hasImage == extractPhotoStoragePath(afterData) # "null"
           needText == ~hasTextCheckedAt(afterData)
           needImage == hasImage /\ ~hasImageCheckedAt(afterData)
       IN Invocation(eventId, IF needText \/ ~needImage THEN "text" ELSE "image",
                     needText \/ ~needImage, needImage)

\* moderatePostIfNeeded up to the first classifier call: the early returns on
\* the triggering snapshot and the outstanding-work set ("skipped"), or the
\* invocation with its outstanding work.
moderatePostIfNeeded(eventId, afterData) ==
  IF afterData.status # "pending"
  THEN Invocation(eventId, "skipped", FALSE, FALSE)
  ELSE LET hasImage == extractPhotoStoragePath(afterData) # "null"
           needText == ~hasTextCheckedAt(afterData)
           needImage == hasImage /\ ~hasImageCheckedAt(afterData)
       IN IF ~needText /\ ~needImage
          THEN Invocation(eventId, "skipped", FALSE, FALSE)
          ELSE Invocation(eventId, IF needText THEN "text" ELSE "image",
                          needText, needImage)

\* onDocumentCreated('posts/{postId}'): the invocation a delivery of ev starts.
onPostCreatedAiModerateIfPending(eventId, ev) ==
  IF ev.kind # "created" THEN Invocation(eventId, "filtered", FALSE, FALSE)
  ELSE IF ev.after.status # "pending" THEN Invocation(eventId, "filtered", FALSE, FALSE)
  ELSE moderatePostIfNeeded(eventId, ev.after)

\* An update trigger without the test on the status before the write.
onPostWrittenAiModerateWhenPending(eventId, ev) ==
  IF ev.kind # "written" THEN Invocation(eventId, "filtered", FALSE, FALSE)
  ELSE IF ev.after.status = "pending"
  THEN moderatePostIfNeeded(eventId, ev.after)
  ELSE Invocation(eventId, "filtered", FALSE, FALSE)

\* onDocumentWritten('posts/{postId}'): only real updates that enter pending.
onPostWrittenAiModerateOnPendingTransition(eventId, ev) ==
  IF ev.kind # "written" THEN Invocation(eventId, "filtered", FALSE, FALSE)
  ELSE IF ev.after.status = "pending" /\ ev.beforeStatus # "pending"
  THEN moderatePostIfNeeded(eventId, ev.after)
  ELSE Invocation(eventId, "filtered", FALSE, FALSE)

\* The invocation either trigger starts on a delivery of ev.
Triggered(eventId, ev) ==
  IF ev.kind = "created" THEN onPostCreatedAiModerateIfPending(eventId, ev)
  ELSE onPostWrittenAiModerateOnPendingTransition(eventId, ev)

\* FieldValue.serverTimestamp() of a write to the document `id` of docs, as
\* the position of the write among the writes to that id: 1 for the write
\* that creates the document, and later than the time it holds for a write
\* that replaces it.
serverTimestamp(docs, id) ==
  IF \E d \in docs : d.id = id
  THEN (CHOOSE d \in docs : d.id = id).createdAt + 1
  ELSE 1

\* onDocumentWritten's test for an update on which a submitted event is due,
\* without the comparison with the status before.
entersPendingFromAny(beforeStatus, afterStatus) == afterStatus = "pending"

\* afterStatus === 'pending' && beforeStatus !== 'pending'
entersPending(beforeStatus, afterStatus) ==
  afterStatus = "pending" /\ beforeStatus # "pending"

\* The event types onPostCreatedWriteEvents appends on a delivery of ev, in
\* order: created, then submitted when the post is created in pending.
createdReactorAppends(ev) ==
  IF ev.kind # "created" THEN <<>>
  ELSE IF ev.after.status = "pending" THEN <<"created", "submitted">>
  ELSE <<"created">>

\* The event types onPostWrittenWriteSubmittedEvent appends on a delivery of
\* ev: nothing on a creation, submitted on an update that enters pending.
writtenReactorAppends(ev) ==
  IF ev.kind # "written" THEN <<>>
  ELSE IF entersPending(ev.beforeStatus, ev.after.status) THEN <<"submitted">>
  ELSE <<>>

\* What the two audit reactors append between them on a delivery of ev.
AuditAppends(ev) == createdReactorAppends(ev) \o writtenReactorAppends(ev)

\* The change event of a write to the post document: the before status and
\* the after snapshot (of the moderation sub-records, whether they are checked).
WriteEvent(before, after) ==
  [kind |-> IF before.exists THEN "written" ELSE "created",
   beforeStatus |-> before.status,
   after |-> [status |-> after.status, authorId |-> after.authorId,
              photo |-> after.photo,
              text |-> IF after.text = "none" THEN "none" ELSE "checked",
              image |-> IF after.image = "none" THEN "none" ELSE "checked"]]

\* A write to the post emits its change event. An event on which the triggers
\* return at once (filtered by the trigger, or skipped by the early returns of
\* moderatePostIfNeeded) has no effect however often it is delivered: it is
\* not kept.
\* The change event as the audit reactors read it: whether the document
\* existed before, the status before and after, and the author.
AuditEvent(before, after) ==
  [kind |-> IF before.exists THEN "written" ELSE "created",
   beforeStatus |-> before.status,
   after |-> [status |-> after.status, authorId |-> after.authorId]]

\* The same holds of the audit reactors: an event for which neither of them
\* appends anything is not kept for them.
EmitEvent(before, after) ==
  LET ev == WriteEvent(before, after)
      inv == Triggered(Len(events) + 1, ev)
  IN /\ events' = IF inv.pc \in {"filtered", "skipped"} THEN events
                  ELSE Append(events, ev)
     /\ auditEvents' = IF AuditAppends(AuditEvent(before, after)) = <<>>
                       THEN auditEvents
                       ELSE Append(auditEvents, AuditEvent(before, after))

\* ------------------------------------------- moderation: client writes
\* createPost: the post is created in pending, with or without a photo.
CreatePost(withPhoto) ==
  /\ ~post.exists
  /\ LET created == [exists |-> TRUE, status |-> "pending", authorId |-> AuthorId,
                     photo |-> withPhoto, text |-> "none", image |-> "none",
                     rejectionReason |-> Null, autoModerated |-> FALSE]
     IN /\ post' = created
        /\ EmitEvent(post, created)
  /\ statusBy' = "author"
  /\ lastAnswers' = NoAnswers
  /\ UNCHANGED <<notModVars, postEvents, adminNotif, userNotifs, invs, lastOutcome>>

AdminEvents == {x \in postEvents : x.id[2] = "auto"}

\* The id of a postEvents document added under an auto-generated id.
AutoId == <<Cardinality(AdminEvents) + 1, "auto">>

\* An approval that leaves the status of a post that is no longer pending.
approvePostIfPending(actorId) ==
  /\ post.exists
  /\ Cardinality(AdminEvents) < MaxAdminActions
  /\ LET after == IF post.status = "pending"
                  THEN [post EXCEPT !.status = "approved", !.rejectionReason = Null]
                  ELSE post
     IN /\ post' = after
        /\ EmitEvent(post, after)
  /\ postEvents' = postEvents \cup
       {[id |-> AutoId, type |-> "approved", actorId |-> actorId,
         createdAt |-> serverTimestamp(postEvents, AutoId)]}
  /\ statusBy' = "admin"
  /\ lastAnswers' = NoAnswers
  /\ UNCHANGED <<notModVars, adminNotif, userNotifs, invs, lastOutcome>>

\* approvePost: a batch of the status update and an `approved` audit event
\* whose actorId is auth.currentUser?.uid ?? 'system'.
approvePost(actorId) ==
  /\ post.exists
  /\ Cardinality(AdminEvents) < MaxAdminActions
  /\ LET after == [post EXCEPT !.status = "approved", !.rejectionReason = Null]
     IN /\ post' = after
        /\ EmitEvent(post, after)
  /\ postEvents' = postEvents \cup
       {[id |-> AutoId, type |-> "approved", actorId |-> actorId,
         createdAt |-> serverTimestamp(postEvents, AutoId)]}
  /\ statusBy' = "admin"
  /\ lastAnswers' = NoAnswers
  /\ UNCHANGED <<notModVars, adminNotif, userNotifs, invs, lastOutcome>>

\* rejectPost: a batch of the status update (with the trimmed reason, or the
\* field deleted when there is none) and a `rejected` audit event whose
\* actorId is auth.currentUser?.uid ?? 'system'.
rejectPost(actorId, hasReason) ==
  /\ post.exists
  /\ Cardinality(AdminEvents) < MaxAdminActions
  /\ LET after == [post EXCEPT !.status = "rejected",
                     !.rejectionReason =
                        IF hasReason THEN slice(trim(AdminReason), 0, 240) ELSE Null]
     IN /\ post' = after
        /\ EmitEvent(post, after)
  /\ postEvents' = postEvents \cup
       {[id |-> AutoId, type |-> "rejected", actorId |-> actorId,
         createdAt |-> serverTimestamp(postEvents, AutoId)]}
  /\ statusBy' = "admin"
  /\ lastAnswers' = NoAnswers
  /\ UNCHANGED <<notModVars, adminNotif, userNotifs, invs, lastOutcome>>

\* The two decisions taken by a signed-in administrator who is not the author.
ApprovePost == approvePost(AdminId)

RejectPost(hasReason) == rejectPost(AdminId, hasReason)

\* The actor ids approvePost and rejectPost can write: the uid of the signed-in
\* administrator, who may be the post's author, or 'system' when no user is
\* signed in.
ActorIds == {AdminId, AuthorId, "system"}

\* Re-submission: the author puts a rejected post back into pending.
ResubmitPost ==
  /\ post.exists /\ post.status = "rejected"
  /\ LET after == [post EXCEPT !.status = "pending"]
     IN /\ post' = after
        /\ EmitEvent(post, after)
  /\ statusBy' = "author"
  /\ lastAnswers' = NoAnswers
  /\ UNCHANGED <<notModVars, postEvents, adminNotif, userNotifs, invs, lastOutcome>>

\* A later write to the post while it awaits moderation: a photo is attached.
AddPhoto ==
  /\ post.exists /\ post.status = "pending" /\ ~post.photo
  /\ LET after == [post EXCEPT !.photo = TRUE]
     IN /\ post' = after
        /\ EmitEvent(post, after)
  /\ lastAnswers' = NoAnswers
  /\ UNCHANGED <<notModVars, postEvents, adminNotif, userNotifs, invs,
                 lastOutcome,
                 statusBy>>

\* markNotificationRead: the author marks one of the moderation notifications
\* as read.
markNotificationRead(notificationId) ==
  /\ \E n \in userNotifs : n.id = notificationId /\ ~n.read
  /\ userNotifs' =
       {IF n.id = notificationId THEN [n EXCEPT !.read = TRUE] ELSE n : n \in userNotifs}
  /\ lastAnswers' = NoAnswers
  /\ UNCHANGED <<notModVars, post, postEvents, adminNotif, events, auditEvents, invs,
                 lastOutcome,
                 statusBy>>

\* markAdminNotificationRead: an administrator marks the review-queue entry
\* as read.
markAdminNotificationRead ==
  /\ adminNotif.exists
  /\ ~adminNotif.read
  /\ adminNotif' = [adminNotif EXCEPT !.read = TRUE]
  /\ lastAnswers' = NoAnswers
  /\ UNCHANGED <<notModVars, post, postEvents, userNotifs, events, auditEvents, invs,
                 lastOutcome, statusBy>>

\* ------------------------------------- moderation: deliveries and calls
One(inv) == SetToBag({inv})

\* One delivery of a kept change event (at least once, in any order, any
\* number of times): the invocation waits on its first classifier call.
Deliver(e) ==
  /\ BagCardinality(invs) < MaxInFlight
  /\ invs' = invs (+) One(Triggered(e, events[e]))
  /\ lastAnswers' = NoAnswers
  /\ UNCHANGED <<notModVars, post, postEvents, adminNotif, userNotifs, events, auditEvents,
                 lastOutcome, statusBy>>

\* The invocation returns without a write.
Return(inv, outcome) ==
  /\ invs' = invs (-) One(inv)
  /\ lastOutcome' = outcome
  /\ lastAnswers' = NoAnswers
  /\ UNCHANGED <<notModVars, post, postEvents, adminNotif, userNotifs, events, auditEvents, statusBy>>

\* The invocation goes on to its next await with new locals.
Continue(inv, next) ==
  /\ invs' = (invs (-) One(inv)) (+) One(next)
  /\ lastAnswers' = NoAnswers
  /\ UNCHANGED <<notModVars, post, postEvents, adminNotif, userNotifs, events, auditEvents,
                 lastOutcome, statusBy>>

\* A fail-open catch: the post is approved when a classifier call throws.
ClassifierFailedOpen(inv) ==
  /\ invs' = invs (-) One(inv)
  /\ lastOutcome' = "failed"
  /\ post' = [post EXCEPT !.status = IF post.exists THEN "approved" ELSE @]
  /\ statusBy' = "engine"
  /\ lastAnswers' = NoAnswers
  /\ UNCHANGED <<notModVars, postEvents, adminNotif, userNotifs, events, auditEvents>>

\* The catch around the classifier calls: log and return.
ClassifierFailed(inv) == Return(inv, "failed")

\* if (needText) textResult = await moderateTextWithOpenAI(...): the call
\* answers, or it throws.
ClassifyText(inv) ==
  /\ inv.pc = "text"
  /\ \/ Continue(inv, [inv EXCEPT !.pc = IF inv.needImage THEN "image" ELSE "tx"])
     \/ ClassifierFailed(inv)

MAX_BYTES == 5242880

\* No storage object was read.
NoObject == [state |-> "none", sizeBytes |-> 0]

\* The photo's storage object as getMetadata and download meet it: present
\* with a size, not found, or failing with another error.
StorageObjects ==
  {[state |-> "present", sizeBytes |-> n] : n \in {0, MAX_BYTES, MAX_BYTES + 1}}
    \cup {[state |-> "not_found", sizeBytes |-> 0], [state |-> "error", sizeBytes |-> 0]}

\* A load that accepts an object of any positive size.
loadImageBufferFromStorageNoLimit(object) ==
  IF object.state = "not_found" THEN [kind |-> "review", reason |-> "missing"]
  ELSE IF object.state = "error" THEN [kind |-> "throws", reason |-> "none"]
  ELSE IF object.sizeBytes <= 0 THEN [kind |-> "review", reason |-> "invalid"]
  ELSE [kind |-> "ok", reason |-> "none"]

\* loadImageBufferFromStorage: a not-found error is the guardrail `missing`,
\* any other error is rethrown; a size that is not positive is `invalid`, one
\* above MAX_BYTES is `too_large`; otherwise the bytes are returned.
loadImageBufferFromStorage(object) ==
  IF object.state = "not_found" THEN [kind |-> "review", reason |-> "missing"]
  ELSE IF object.state = "error" THEN [kind |-> "throws", reason |-> "none"]
  ELSE IF object.sizeBytes <= 0 THEN [kind |-> "review", reason |-> "invalid"]
  ELSE IF object.sizeBytes > MAX_BYTES THEN [kind |-> "review", reason |-> "too_large"]
  ELSE [kind |-> "ok", reason |-> "none"]

\* The category the guardrail verdict carries for a load that asks for review.
guardrailCategory(reason) ==
  IF reason = "missing" THEN "guardrail_missing_file"
  ELSE IF reason = "too_large" THEN "guardrail_too_large"
  ELSE "guardrail_invalid_file"

\* The load of the object threw: the catch around the classifier calls logs
\* and returns.
StorageFailed(inv, object) ==
  /\ invs' = invs (-) One(inv)
  /\ lastOutcome' = "failed"
  /\ lastAnswers' = [NoAnswers EXCEPT !.object = object]
  /\ UNCHANGED <<notModVars, post, postEvents, adminNotif, userNotifs, events,
                 auditEvents, statusBy>>

\* if (needImage): the storage read, then moderateImageWithOpenAI on the bytes:
\* a guardrail verdict or the classifier's answer, or one of the two throws.
ClassifyImage(inv) ==
  /\ inv.pc = "image"
  /\ \/ \E object \in StorageObjects :
          /\ loadImageBufferFromStorage(object).kind = "throws"
          /\ StorageFailed(inv, object)
     \/ /\ \E object \in StorageObjects :
             loadImageBufferFromStorage(object).kind # "throws"
        /\ Continue(inv, [inv EXCEPT !.pc = "tx"])
     \/ /\ \E object \in StorageObjects :
             loadImageBufferFromStorage(object).kind = "ok"
        /\ ClassifierFailed(inv)

\* The answers an invocation can hold when it reaches the transaction: a text
\* decision if the text call was made; for the image call the guardrail REVIEW
\* (no storage path, or a missing, oversized or invalid object) or the
\* classifier's decision, with its rejection message on BLOCK.
\* moderateTextWithOpenAI: the parsed answer; a BLOCK carries the model's
\* message, or the fallback, cut to 240 characters.
moderateTextWithOpenAI(decision, rejectionReasonRaw) ==
  [decision |-> decision,
   rejectionReason |->
     IF decision = "BLOCK"
     THEN slice(IF asNonEmptyString(rejectionReasonRaw) # Null
                THEN asNonEmptyString(rejectionReasonRaw)
                ELSE TextFallbackReason, 0, 240)
     ELSE Null]

\* moderateImageWithOpenAI: the same for the image answer.
moderateImageWithOpenAI(decision, rejectionReasonRaw) ==
  [decision |-> decision,
   rejectionReason |->
     IF decision = "BLOCK"
     THEN slice(IF asNonEmptyString(rejectionReasonRaw) # Null
                THEN asNonEmptyString(rejectionReasonRaw)
                ELSE ImageFallbackReason, 0, 240)
     ELSE Null]

\* Every answer the two classifier calls can return.
TextAnswers ==
  {moderateTextWithOpenAI(d, m) : d \in Decisions, m \in TextRawMessages}

ImageAnswers ==
  {moderateImageWithOpenAI(d, m) : d \in Decisions, m \in ImageRawMessages}

\* --------------------------------------- classifier calls on a response
\* A text is a sequence of tokens: an opening brace, a closing brace, the
\* members of an object, a scalar JSON value, or characters that are not JSON.
\* The provider's body is a text whose object carries choices[0].message.content;
\* the content is a text whose object carries decision and the rejection message.
Token(t) == [t |-> t, decision |-> "undefined", rejectionReason |-> Null]
Members(decision, rejectionReason) ==
  [t |-> "members", decision |-> decision, rejectionReason |-> rejectionReason]

\* The values the decision member can hold: the three decisions, a decision in
\* the wrong case, another word, or no such member.
DecisionValues == Decisions \cup {"allow", "MAYBE", "undefined"}

ContentMembers ==
  {Members(d, m) : d \in DecisionValues, m \in {Null, <<"t", "x", "t">>}}

\* The content string of a completion: the object alone, the object inside
\* other text, the object cut short or followed by a stray brace, a scalar,
\* other text, or the empty string.
Contents ==
  UNION {{<<Token("{"), f, Token("}")>>,
          <<Token("junk"), Token("{"), f, Token("}"), Token("junk")>>,
          <<Token("{"), f>>,
          <<Token("{"), f, Token("}"), Token("}")>>} : f \in ContentMembers}
    \cup {<<Token("scalar")>>, <<Token("junk")>>, <<>>}

OToken(t) == [t |-> t, typeofContent |-> "undefined", content |-> <<>>]
OMembers(typeofContent, content) ==
  [t |-> "members", typeofContent |-> typeofContent, content |-> content]

BodyMembers ==
  {OMembers("string", c) : c \in Contents}
    \cup {OMembers("undefined", <<>>), OMembers("number", <<>>)}

\* The body of the HTTP response.
Bodies ==
  UNION {{<<OToken("{"), f, OToken("}")>>,
          <<OToken("junk"), OToken("{"), f, OToken("}")>>} : f \in BodyMembers}
    \cup {<<OToken("{"),
            OMembers("string", <<Token("{"), Members("ALLOW", Null), Token("}")>>)>>,
          <<OToken("junk")>>, <<>>}

\* fetch resolves with a 2xx or another status and a body, or rejects
\* (network error, timeout).
Responses ==
  [fetch : {"ok", "not_ok"}, respText : Bodies]
    \cup {[fetch |-> "rejects", respText |-> <<>>]}

NoResponse == [fetch |-> "none", respText |-> <<>>]

\* OPENAI_API_KEY and AI_MODERATION_MODEL are set or not, and the response.
CallInputs == [apiKey : BOOLEAN, model : BOOLEAN, resp : Responses]

NoCallInput == [apiKey |-> FALSE, model |-> FALSE, resp |-> NoResponse]

NoCall ==
  [fn |-> "none",
   out |-> [kind |-> "none", decision |-> "null", rejectionReason |-> Null]]
Throws == [kind |-> "throws", decision |-> "null", rejectionReason |-> Null]
Returns(result) ==
  [kind |-> "result", decision |-> result.decision,
   rejectionReason |-> result.rejectionReason]

JSONParseThrows == [ok |-> FALSE, isObject |-> FALSE, value |-> Null]

\* JSON.parse: the text is one object, or one scalar; anything else throws.
JSONParse(text) ==
  IF Len(text) = 3 /\ text[1].t = "{" /\ text[2].t = "members" /\ text[3].t = "}"
  THEN [ok |-> TRUE, isObject |-> TRUE, value |-> text[2]]
  ELSE IF Len(text) = 1 /\ text[1].t = "scalar"
  THEN [ok |-> TRUE, isObject |-> FALSE, value |-> text[1]]
  ELSE JSONParseThrows

\* text.indexOf('{') and text.lastIndexOf('}'), 1-based; 0 when absent.
indexOfBrace(text) ==
  IF \E i \in 1..Len(text) : text[i].t = "{"
  THEN CHOOSE i \in 1..Len(text) :
         text[i].t = "{" /\ \A j \in 1..(i - 1) : text[j].t # "{"
  ELSE 0

lastIndexOfBrace(text) ==
  IF \E i \in 1..Len(text) : text[i].t = "}"
  THEN CHOOSE i \in 1..Len(text) :
         text[i].t = "}" /\ \A j \in (i + 1)..Len(text) : text[j].t # "}"
  ELSE 0

\* safeJsonParse: JSON.parse; when that throws, the text from the first
\* opening brace to the last closing brace is parsed; null when that throws.
safeJsonParse(text) ==
  IF JSONParse(text).ok THEN JSONParse(text)
  ELSE LET start == indexOfBrace(text)
           end == lastIndexOfBrace(text)
       IN IF start >= 1 /\ end > start
          THEN JSONParse(SubSeq(text, start, end))
          ELSE JSONParseThrows

\* An asDecision that lets any value through as ALLOW.
asDecisionDefaultAllow(value) == IF value \in Decisions THEN value ELSE "ALLOW"

\* asDecision: the value itself when it is exactly ALLOW, REVIEW or BLOCK.
asDecision(value) == IF value \in Decisions THEN value ELSE "null"

\* respJson?.choices?.[0]?.message?.content, as a string or ''.
contentStr(respText) ==
  LET respJson == safeJsonParse(respText)
  IN IF respJson.ok /\ respJson.isObject /\ respJson.value.typeofContent = "string"
     THEN respJson.value.content
     ELSE <<>>

\* parsed?.decision and parsed?.rejectionReason of the content string.
parsedMember(respText, member) ==
  LET parsed == safeJsonParse(contentStr(respText))
  IN IF parsed.ok /\ parsed.isObject THEN parsed.value[member]
     ELSE IF member = "decision" THEN "undefined" ELSE Null

\* moderateTextWithOpenAI as a whole: the configuration checks, the status
\* check, the two parses, the decision check, then the result.
moderateTextCall(input) ==
  IF ~input.apiKey \/ ~input.model THEN Throws
  ELSE IF input.resp.fetch # "ok" THEN Throws
  ELSE LET decision == asDecision(parsedMember(input.resp.respText, "decision"))
       IN IF decision = "null" THEN Throws
          ELSE Returns(moderateTextWithOpenAI(decision,
                 parsedMember(input.resp.respText, "rejectionReason")))

\* moderateImageWithOpenAI as a whole.
moderateImageCall(input) ==
  IF ~input.apiKey \/ ~input.model THEN Throws
  ELSE IF input.resp.fetch # "ok" THEN Throws
  ELSE LET decision == asDecision(parsedMember(input.resp.respText, "decision"))
       IN IF decision = "null" THEN Throws
          ELSE Returns(moderateImageWithOpenAI(decision,
                 parsedMember(input.resp.respText, "rejectionReason")))

\* One call of each classifier on the response at hand.
CallText ==
  /\ callResult = NoCall
  /\ callResult' = [fn |-> "text", out |-> moderateTextCall(callInput)]
  /\ UNCHANGED <<callInput, modVars, likeVars, followVars, commentVars,
                 followNotifVars, adminNotifyVars, auditVars>>

CallImage ==
  /\ callResult = NoCall
  /\ callResult' = [fn |-> "image", out |-> moderateImageCall(callInput)]
  /\ UNCHANGED <<callInput, modVars, likeVars, followVars, commentVars,
                 followNotifVars, adminNotifyVars, auditVars>>

TextResults(inv) ==
  IF inv.needText THEN TextAnswers
  ELSE {[decision |-> "null", rejectionReason |-> Null]}

ImageResults(inv) ==
  IF ~inv.needImage
  THEN {[decision |-> "null", guardrail |-> FALSE, rejectionReason |-> Null,
         object |-> NoObject, category |-> "none"]}
  ELSE IF extractPhotoStoragePath(events[inv.eventId].after) = "null"
  THEN {[decision |-> "REVIEW", guardrail |-> TRUE, rejectionReason |-> Null,
         object |-> NoObject, category |-> "guardrail_missing_path"]}
  ELSE {[decision |-> "REVIEW", guardrail |-> TRUE, rejectionReason |-> Null,
         object |-> o,
         category |-> guardrailCategory(loadImageBufferFromStorage(o).reason)]
        : o \in {x \in StorageObjects :
                   loadImageBufferFromStorage(x).kind = "review"}}
       \cup {[decision |-> x.decision, guardrail |-> FALSE,
              rejectionReason |-> x.rejectionReason, object |-> o,
              category |-> "none"]
             : x \in ImageAnswers,
               o \in {y \in StorageObjects :
                        loadImageBufferFromStorage(y).kind = "ok"}}

Results(inv) ==
  {[textResult |-> t.decision, textRejectionReason |-> t.rejectionReason,
    imageResult |-> i.decision, imageGuardrail |-> i.guardrail,
    imageRejectionReason |-> i.rejectionReason,
    imageObject |-> i.object, imageCategory |-> i.category]
   : t \in TextResults(inv), i \in ImageResults(inv)}

\* ------------------------------------ moderation: categories and scores
\* A result that was not computed: textResult?.categories ?? null and
\* textResult?.score ?? 0.
NoScores == [categories |-> {}, score |-> 0]

\* The categories and the score of a classifier's answer, after asCategories
\* and clamp01: one category with its score.
TextScores == {[categories |-> {<<"hate", 60>>}, score |-> 60]}

ImageScores == {[categories |-> {<<"nudity", 70>>}, score |-> 70]}

\* The categories and the score of a guardrail result.
guardrailScores(category) ==
  [categories |-> {<<"nudity", 0>>, <<"violence", 0>>, <<category, 100>>},
   score |-> 50]

Keys(categories) == {p[1] : p \in categories}

MaxOf(numbers) == CHOOSE n \in numbers : \A m \in numbers : m <= n

\* mergeCategories: per key, the largest score of the two maps.
mergeCategories(a, b) ==
  {<<k, MaxOf({0} \cup {p[2] : p \in {q \in a \cup b : q[1] = k}})>>
   : k \in Keys(a) \cup Keys(b)}

\* The categories and scores a transaction holds for the results r. They are
\* read by the review-queue entry alone, so they are drawn only when the
\* combined decision is REVIEW.
PassScores(r, combinedDecision) ==
  IF combinedDecision # "REVIEW" THEN {[text |-> NoScores, image |-> NoScores]}
  ELSE {[text |-> t, image |-> i]
        : t \in IF r.textResult = "null" THEN {NoScores} ELSE TextScores,
          i \in IF r.imageResult = "null" THEN {NoScores}
                ELSE IF r.imageGuardrail THEN {guardrailScores(r.imageCategory)}
                ELSE ImageScores}

\* const meta = {...(categories ? {categories}), ...(score > 0 ? {score})}.
passMeta(scores) ==
  [categories |-> mergeCategories(scores.text.categories, scores.image.categories),
   score |-> MaxOf({scores.text.score, scores.image.score})]

\* t.set(adminRef, {read, meta}, {merge: true}): the fields named by the data
\* are written, leaf by leaf; every other field of the document is kept, the
\* createdAt and the keys of meta that the data does not name among them.
setMerge(doc, read, meta) ==
  [doc EXCEPT
     !.read = read,
     !.meta = [categories |->
                 {p \in @.categories : p[1] \notin Keys(meta.categories)}
                   \cup meta.categories,
               score |-> IF meta.score > 0 THEN meta.score ELSE @.score]]

\* ------------------------------------------ moderation: the transaction
\* A mapping that approves whatever is not blocked.
StatusForNoReview(combinedDecision) ==
  IF combinedDecision = "BLOCK" THEN "rejected" ELSE "approved"

\* A mapping that holds an allowed post in pending.
StatusForAllowHeld(combinedDecision) ==
  IF combinedDecision = "BLOCK" THEN "rejected" ELSE "pending"

\* The status the engine writes for a combined decision.
StatusFor(combinedDecision) ==
  IF combinedDecision = "ALLOW" THEN "approved"
  ELSE IF combinedDecision = "BLOCK" THEN "rejected"
  ELSE "pending"

\* Locals of a text-only engine: the current photo is not looked at.
TxLocalsTextOnly(r, current) ==
  LET stillNeedText == ~hasTextCheckedAt(current)
      finalTextDecision == IF stillNeedText THEN r.textResult ELSE current.text
  IN [stillNeedText |-> stillNeedText, stillNeedImage |-> FALSE,
      finalTextDecision |-> finalTextDecision,
      finalImageDecision |-> "null",
      combinedDecision |-> combineDecisions(finalTextDecision, "null")]

\* Locals that fold only the decisions computed in this attempt, not the
\* stored ones.
TxLocalsFreshOnly(r, current) ==
  LET stillNeedText == ~hasTextCheckedAt(current)
      currentHasImage == extractPhotoStoragePath(current) # "null"
      stillNeedImage == currentHasImage /\ ~hasImageCheckedAt(current)
      finalTextDecision == r.textResult
      finalImageDecision == IF currentHasImage THEN r.imageResult ELSE "null"
  IN [stillNeedText |-> stillNeedText, stillNeedImage |-> stillNeedImage,
      finalTextDecision |-> finalTextDecision,
      finalImageDecision |-> finalImageDecision,
      combinedDecision |-> combineDecisions(finalTextDecision, finalImageDecision)]

\* The locals the transaction body computes from the post as re-read.
TxLocals(r, current) ==
  LET stillNeedText == ~hasTextCheckedAt(current)
      currentHasImage == extractPhotoStoragePath(current) # "null"
      stillNeedImage == currentHasImage /\ ~hasImageCheckedAt(current)
      finalTextDecision == IF stillNeedText THEN r.textResult ELSE current.text
      finalImageDecision ==
        IF currentHasImage
        THEN IF stillNeedImage THEN r.imageResult
             ELSE IF current.image \in Decisions THEN current.image ELSE "REVIEW"
        ELSE "null"
  IN [stillNeedText |-> stillNeedText, stillNeedImage |-> stillNeedImage,
      finalTextDecision |-> finalTextDecision,
      finalImageDecision |-> finalImageDecision,
      combinedDecision |-> combineDecisions(finalTextDecision, finalImageDecision)]

\* The writes of one transaction whose re-checks passed: the sub-verdicts that
\* are still missing, the status, the two audit events and the notifications.
TxApply(inv, r) ==
  LET current == post
      l == TxLocals(r, current)
      reason ==
        IF l.finalImageDecision = "BLOCK" /\ r.imageRejectionReason # Null
        THEN r.imageRejectionReason
        ELSE TextFallbackReason
      rejectionReason ==
        IF l.combinedDecision = "BLOCK" THEN slice(reason, 0, 240) ELSE Null
      notifReason ==
        IF trim(rejectionReason) # <<>> THEN slice(trim(rejectionReason), 0, 240)
        ELSE Null
      updated ==
        [current EXCEPT
           !.autoModerated = TRUE,
           !.text = IF l.stillNeedText /\ r.textResult # "null" THEN r.textResult ELSE @,
           !.image = IF l.stillNeedImage /\ r.imageResult # "null" THEN r.imageResult ELSE @,
           !.status = StatusFor(l.combinedDecision),
           !.rejectionReason =
              IF l.combinedDecision = "ALLOW" THEN Null
              ELSE IF l.combinedDecision = "BLOCK" THEN rejectionReason
              ELSE @]
      outcomeType == outcomeEventType(l.combinedDecision)
      started == [id |-> deterministicEventId(inv.eventId, "ai_review_started"),
                  type |-> "ai_review_started", actorId |-> "system",
                  createdAt |->
                    serverTimestamp(postEvents,
                                    deterministicEventId(inv.eventId, "ai_review_started"))]
      outcome == [id |-> deterministicEventId(inv.eventId, outcomeType),
                  type |-> outcomeType, actorId |-> "system",
                  createdAt |->
                    serverTimestamp(postEvents,
                                    deterministicEventId(inv.eventId, outcomeType))]
      notifType ==
        IF l.combinedDecision = "REVIEW" THEN "post_ai_review"
        ELSE IF l.combinedDecision = "ALLOW" THEN "post_ai_approved"
        ELSE "post_ai_rejected"
      notifId == userNotificationDocId(notifType, PostId)
  IN \E scores \in PassScores(r, l.combinedDecision) :
     LET meta == passMeta(scores)
     IN
     /\ post' = updated
     /\ EmitEvent(current, updated)
     /\ postEvents' = SetDoc(SetDoc(postEvents, started), outcome)
     /\ adminNotif' =
          IF l.combinedDecision = "REVIEW"
          THEN IF ~adminNotif.exists
               THEN [exists |-> TRUE, type |-> "post_needs_review",
                     postId |-> PostId, read |-> FALSE, meta |-> meta,
                     createdAt |-> inv.eventId]
               ELSE setMerge(adminNotif, FALSE, meta)
          ELSE adminNotif
     /\ userNotifs' =
          IF DocExists(userNotifs, notifId) THEN userNotifs
          ELSE userNotifs \cup
                 {[id |-> notifId, type |-> notifType, postId |-> PostId,
                   actorId |-> "system", read |-> FALSE,
                   reason |-> notifReason]}
     /\ invs' = invs (-) One(inv)
     /\ lastOutcome' = "applied"
     /\ lastAnswers' = [text |-> r.textRejectionReason,
                        image |-> r.imageRejectionReason,
                        object |-> r.imageObject, category |-> r.imageCategory,
                        meta |-> meta]
     /\ statusBy' = "engine"
     /\ UNCHANGED notModVars

\* A transaction body without the re-check of the status.
TxBodyNoStatusCheck(inv, r) ==
  LET current == post
      l == TxLocals(r, current)
  IN IF ~current.exists THEN Return(inv, "noop")
     ELSE IF ~l.stillNeedText /\ ~l.stillNeedImage THEN Return(inv, "noop")
     ELSE IF l.stillNeedText /\ r.textResult = "null" THEN Return(inv, "noop")
     ELSE IF l.stillNeedImage /\ r.imageResult = "null" THEN Return(inv, "noop")
     ELSE TxApply(inv, r)

\* Re-checks without the one on the authorId of the re-read post.
TxReturnsNoAuthorCheck(r) ==
  LET current == post
      l == TxLocals(r, current)
  IN \/ ~current.exists
     \/ current.status # "pending"
     \/ ~l.stillNeedText /\ ~l.stillNeedImage
     \/ l.stillNeedText /\ r.textResult = "null"
     \/ l.stillNeedImage /\ r.imageResult = "null"

\* The re-checks at the head of the transaction body, on the post as re-read:
\* TRUE when the body returns without a write.
TxReturns(r) ==
  LET current == post
      l == TxLocals(r, current)
  IN \/ ~current.exists
     \/ current.status # "pending"
     \/ current.authorId = "none"
     \/ ~l.stillNeedText /\ ~l.stillNeedImage
     \/ l.stillNeedText /\ r.textResult = "null"
     \/ l.stillNeedImage /\ r.imageResult = "null"

\* The transaction body: the re-checks, then the writes.
TxBody(inv, r) ==
  IF TxReturns(r) THEN Return(inv, "noop") ELSE TxApply(inv, r)

\* The answers to run the body on: when the re-checks stop the body whatever
\* the answers are, one of them stands for all.
TxResults(inv) ==
  LET rs == Results(inv)
  IN IF \A r \in rs : TxReturns(r) THEN {CHOOSE r \in rs : TRUE} ELSE rs

\* db.runTransaction(...): the body runs atomically on the current documents,
\* or the transaction fails and nothing is written (the catch logs it).
Transaction(inv) ==
  /\ inv.pc = "tx"
  /\ \/ \E r \in TxResults(inv) : TxBody(inv, r)
     \/ Return(inv, "tx_failed")

\* ------------------------------------------------------- notifications
DEDUPE_WINDOW_MINUTES == 10

DEDUPE_SCAN_LIMIT == 25

isSameNotification(n, params) ==
  /\ n.actorId = params.actorId
  /\ n.type = params.type
  /\ n.postId = params.postId

\* The documents the dedupe query returns: the unread items of the target,
\* newest first, at most DEDUPE_SCAN_LIMIT of them.
DedupeScan(items, targetUserId) ==
  LET unread == {n \in items : n.target = targetUserId /\ ~n.read}
  IN {n \in unread :
        Cardinality({m \in unread : m.createdAt > n.createdAt}) < DEDUPE_SCAN_LIMIT}

\* A dedupe query that is run for every notification type, comments too.
dedupeDecisionEveryType(items, params, clock, scanFails) ==
  LET cutoff == clock - DEDUPE_WINDOW_MINUTES
      isDuplicate ==
        \E d \in DedupeScan(items, params.targetUserId) :
          ~(d.createdAt < cutoff) /\ isSameNotification(d, params)
  IN IF params.targetUserId = "null" \/ params.actorId = "null"
     THEN "skipped_invalid"
     ELSE IF params.targetUserId = params.actorId THEN "skipped_self"
     ELSE IF ~scanFails /\ isDuplicate THEN "skipped_duplicate"
     ELSE "create"

\* A dedupe query without the catch around it: a failing query ends the call.
dedupeDecisionScanUncaught(items, params, clock, scanFails) ==
  LET shouldDedupe == params.type \in {"follow", "like"}
      cutoff == clock - DEDUPE_WINDOW_MINUTES
      isDuplicate ==
        \E d \in DedupeScan(items, params.targetUserId) :
          ~(d.createdAt < cutoff) /\ isSameNotification(d, params)
  IN IF params.targetUserId = "null" \/ params.actorId = "null"
     THEN "skipped_invalid"
     ELSE IF params.targetUserId = params.actorId THEN "skipped_self"
     ELSE IF shouldDedupe /\ scanFails THEN "throws"
     ELSE IF shouldDedupe /\ isDuplicate THEN "skipped_duplicate"
     ELSE "create"

\* createNotificationIfNotDuplicated up to the answer of the dedupe query, at
\* server time clock: the early result, or "create" when the function goes on
\* to write. scanFails: the dedupe query throws (it is caught, the
\* notification is still created).
dedupeDecision(items, params, clock, scanFails) ==
  LET shouldDedupe == params.type \in {"follow", "like"}
      cutoff == clock - DEDUPE_WINDOW_MINUTES
      isDuplicate ==
        \E d \in DedupeScan(items, params.targetUserId) :
          ~(d.createdAt < cutoff) /\ isSameNotification(d, params)
  IN IF params.targetUserId = "null" \/ params.actorId = "null"
     THEN "skipped_invalid"
     ELSE IF params.targetUserId = params.actorId THEN "skipped_self"
     ELSE IF shouldDedupe /\ ~scanFails /\ isDuplicate THEN "skipped_duplicate"
     ELSE "create"

\* docRef.create(payload) under the event id at server time clock: an existing
\* document is kept (ALREADY_EXISTS counts as created).
createNotificationDoc(items, params, clock) ==
  LET doc == [target |-> params.targetUserId, id |-> params.eventId,
              actorId |-> params.actorId, type |-> params.type,
              postId |-> params.postId, createdAt |-> clock, read |-> FALSE]
  IN IF \E n \in items : n.target = doc.target /\ n.id = doc.id THEN items
     ELSE items \cup {doc}

\* createNotificationIfNotDuplicated with nothing running between its query
\* and its write: the result and the collection afterwards.
createNotificationIfNotDuplicated(items, params, clock, scanFails) ==
  LET decision == dedupeDecision(items, params, clock, scanFails)
  IN IF decision # "create" THEN [result |-> decision, items |-> items]
     ELSE [result |-> "created",
           items |-> createNotificationDoc(items, params, clock)]

\* One call of createNotificationIfNotDuplicated as its caller sees it.
\* createFails: docRef.create throws an error other than ALREADY_EXISTS, which
\* the catch logs and rethrows; an existing document makes create throw
\* ALREADY_EXISTS, which the catch turns into "created".
createNotificationAttempt(items, params, clock, scanFails, createFails) ==
  IF dedupeDecision(items, params, clock, scanFails) = "create" /\ createFails
  THEN [result |-> "throws", items |-> items]
  ELSE createNotificationIfNotDuplicated(items, params, clock, scanFails)

\* The arguments the follow, like and comment handlers call the function with
\* for what another user did to the author; events are <<type, number>>.
NotificationParams ==
  LET NotifyEvents == {<<"follow", 1>>, <<"like", 1>>, <<"like", 2>>,
                       <<"comment", 1>>, <<"comment", 2>>}
  IN {[targetUserId |-> AuthorId, actorId |-> a, type |-> ev[1],
       postId |-> IF ev[1] = "follow" THEN "null" ELSE PostId, eventId |-> ev] :
        a \in UserIds \ {AuthorId}, ev \in NotifyEvents}

\* A call on the collection as it is, with what it was called with and what
\* it reported kept for inspection.
CallCreateNotification(params, scanFails, createFails) ==
  LET out == createNotificationAttempt(notifItems, params, now, scanFails, createFails)
  IN /\ callInput' = [params |-> params, scanFails |-> scanFails,
                      createFails |-> createFails]
     /\ callResult' = [fn |-> "createNotificationIfNotDuplicated", out |-> out.result]
     /\ notifItems' = out.items
     /\ UNCHANGED <<modVars, followVars, commentVars, followNotifVars,
                    adminNotifyVars, auditVars, likeCount, likes, likeEvents,
                    likeHandled, now>>

\* The server clock advances.
Tick ==
  /\ now + TickMinutes <= MaxTime
  /\ now' = now + TickMinutes
  /\ UNCHANGED <<notLikeVars, likeCount, likes, likeEvents, likeHandled, notifItems>>

\* ---------------------------------------------------------------- likes
\* toggleLike on the post as shown to the user: the like document of the user
\* is deleted if it exists, set otherwise; the write emits a deleted or a
\* created event.
toggleLike(userId) ==
  /\ post.exists
  /\ Len(likeEvents) < MaxLikeEvents
  /\ IF userId \in likes
     THEN /\ likes' = likes \ {userId}
          /\ likeEvents' = Append(likeEvents, [kind |-> "deleted", userId |-> userId])
     ELSE /\ likes' = likes \cup {userId}
          /\ likeEvents' = Append(likeEvents, [kind |-> "created", userId |-> userId])
  /\ likeHandled' = Append(likeHandled, 0)
  /\ UNCHANGED <<notLikeVars, likeCount, notifItems, now>>

\* One delivery of a like-created event: increment(1) on the post, then the
\* like notification for the author. A failing update is logged, not rethrown;
\* so is a failing notification.
onLikeCreated(e) ==
  /\ likeEvents[e].kind = "created"
  /\ likeHandled[e] < MaxDeliveries
  /\ likeHandled' = [likeHandled EXCEPT ![e] = @ + 1]
  /\ \/ /\ post.exists
        /\ likeCount' = likeCount + 1
        /\ \/ \E scanFails \in BOOLEAN :
                notifItems' =
                  createNotificationIfNotDuplicated(
                    notifItems,
                    [targetUserId |-> post.authorId, actorId |-> likeEvents[e].userId,
                     type |-> "like", postId |-> PostId, eventId |-> <<"like", e>>],
                    now, scanFails).items
           \/ notifItems' = notifItems
     \/ /\ likeCount' = likeCount
        /\ notifItems' = notifItems
  /\ UNCHANGED <<notLikeVars, likes, likeEvents, now>>

\* One delivery of a like-deleted event: increment(-1) on the post; a failing
\* update is logged, not rethrown.
onLikeDeleted(e) ==
  /\ likeEvents[e].kind = "deleted"
  /\ likeHandled[e] < MaxDeliveries
  /\ likeHandled' = [likeHandled EXCEPT ![e] = @ + 1]
  /\ \/ /\ post.exists
        /\ likeCount' = likeCount - 1
     \/ likeCount' = likeCount
  /\ UNCHANGED <<notLikeVars, likes, likeEvents, notifItems, now>>

\* -------------------------------------------------------------- comments
\* addComment: a transaction that fails on a missing post and sets a new
\* comment document otherwise; the write emits a created event.
addComment(userId) ==
  /\ post.exists
  /\ Len(commentEvents) < MaxCommentEvents
  /\ LET commentId == Len(commentEvents) + 1
     IN /\ comments' = comments \cup {commentId}
        /\ commentEvents' =
             Append(commentEvents,
                    [kind |-> "created", commentId |-> commentId, authorId |-> userId])
  /\ commentHandled' = Append(commentHandled, 0)
  /\ UNCHANGED <<modVars, likeVars, followVars, followNotifVars, adminNotifyVars, auditVars, callVars,
                 commentCount,
                 commentOutcome>>

\* deleteComment: a transaction that deletes the comment document if it is
\* there; the write emits a deleted event.
deleteComment(commentId) ==
  /\ post.exists
  /\ commentId \in comments
  /\ Len(commentEvents) < MaxCommentEvents
  /\ comments' = comments \ {commentId}
  /\ commentEvents' =
       Append(commentEvents,
              [kind |-> "deleted", commentId |-> commentId, authorId |-> "null"])
  /\ commentHandled' = Append(commentHandled, 0)
  /\ UNCHANGED <<modVars, likeVars, followVars, followNotifVars, adminNotifyVars, auditVars, callVars,
                 commentCount,
                 commentOutcome>>

\* One delivery of a comment-created event: increment(1) on the post, then the
\* comment notification for the author unless the commenter is the author. A
\* failing update is logged, not rethrown; so is a failing notification.
onCommentCreated(e) ==
  /\ commentEvents[e].kind = "created"
  /\ commentHandled[e] < MaxDeliveries
  /\ commentHandled' = [commentHandled EXCEPT ![e] = @ + 1]
  /\ LET commenterUid == commentEvents[e].authorId
         authorId == post.authorId
     IN \/ /\ post.exists
           /\ commentCount' = commentCount + 1
           /\ commentOutcome' = "incremented"
           /\ IF authorId = "none" \/ commenterUid = "null" \/ authorId = commenterUid
              THEN notifItems' = notifItems
              ELSE \/ \E scanFails \in BOOLEAN :
                        notifItems' =
                          createNotificationIfNotDuplicated(
                            notifItems,
                            [targetUserId |-> authorId, actorId |-> commenterUid,
                             type |-> "comment", postId |-> PostId,
                             eventId |-> <<"comment", e>>],
                            now, scanFails).items
                   \/ notifItems' = notifItems
        \/ /\ commentCount' = commentCount
           /\ commentOutcome' = "increment_failed"
           /\ notifItems' = notifItems
  /\ UNCHANGED <<modVars, followVars, followNotifVars, adminNotifyVars, auditVars, callVars, likeCount,
                 likes, likeEvents,
                 likeHandled, now,
                 comments, commentEvents>>

\* A decrement that is not clamped.
CommentDecrementUnclamped(current) == current - 1

\* The value the transaction of onCommentDeleted writes: Math.max(0, current - 1).
CommentDecrement(current) == IF current - 1 > 0 THEN current - 1 ELSE 0

\* One delivery of a comment-deleted event: a transaction reads the post and
\* writes the clamped decrement; a missing post is left alone; a transaction
\* that throws is logged, not rethrown.
onCommentDeleted(e) ==
  /\ commentEvents[e].kind = "deleted"
  /\ commentHandled[e] < MaxDeliveries
  /\ commentHandled' = [commentHandled EXCEPT ![e] = @ + 1]
  /\ \/ IF ~post.exists
        THEN /\ commentCount' = commentCount
             /\ commentOutcome' = "missing_post"
        ELSE /\ commentCount' = CommentDecrement(commentCount)
             /\ commentOutcome' = "decremented"
     \/ /\ commentCount' = commentCount
        /\ commentOutcome' = "decrement_failed"
  /\ UNCHANGED <<modVars, likeVars, followVars, followNotifVars, adminNotifyVars, auditVars, callVars,
                 comments,
                 commentEvents>>

\* --------------------------------------------------------------- follows
NoUser == [exists |-> FALSE, followingCount |-> 0, followersCount |-> 0]

NewUser == [exists |-> TRUE, followingCount |-> 0, followersCount |-> 0]

\* followUser: one batch sets users/{a}/following/{b} and its mirror
\* users/{b}/followers/{a}; on an existing edge the write is an update.
followUser(currentUserId, targetUserId) ==
  /\ currentUserId # targetUserId
  /\ Len(followEvents) < MaxFollowEvents
  /\ following' = following \cup {<<currentUserId, targetUserId>>}
  /\ followEvents' =
       Append(followEvents,
              [kind |-> IF <<currentUserId, targetUserId>> \in following
                        THEN "updated" ELSE "created",
               followerId |-> currentUserId, followedId |-> targetUserId])
  /\ followHandled' = Append(followHandled, 0)
  /\ UNCHANGED <<notFollowVars, users>>

\* unfollowUser: one batch deletes the edge and its mirror.
unfollowUser(currentUserId, targetUserId) ==
  /\ <<currentUserId, targetUserId>> \in following
  /\ Len(followEvents) < MaxFollowEvents
  /\ following' = following \ {<<currentUserId, targetUserId>>}
  /\ followEvents' =
       Append(followEvents,
              [kind |-> "deleted", followerId |-> currentUserId,
               followedId |-> targetUserId])
  /\ followHandled' = Append(followHandled, 0)
  /\ UNCHANGED <<notFollowVars, users>>

\* A handler that writes the follower's counter although the followed user's
\* document is missing.
FollowTransactionNotAtomic(ev) ==
  LET wasCreated == ev.kind = "created"
      followerDoc == users[ev.followerId]
  IN IF ~followerDoc.exists THEN users
     ELSE [users EXCEPT ![ev.followerId].followingCount =
             IF wasCreated THEN @ + 1 ELSE IF @ - 1 > 0 THEN @ - 1 ELSE 0]

\* The transaction of onFollowUser: the user documents afterwards.
FollowTransaction(ev) ==
  LET wasCreated == ev.kind = "created"
      followerDoc == users[ev.followerId]
      followedDoc == users[ev.followedId]
      nextFollowingCount ==
        IF wasCreated THEN followerDoc.followingCount + 1
        ELSE IF followerDoc.followingCount - 1 > 0
             THEN followerDoc.followingCount - 1 ELSE 0
      nextFollowersCount ==
        IF wasCreated THEN followedDoc.followersCount + 1
        ELSE IF followedDoc.followersCount - 1 > 0
             THEN followedDoc.followersCount - 1 ELSE 0
  IN IF ~followerDoc.exists \/ ~followedDoc.exists THEN users
     ELSE [users EXCEPT ![ev.followerId].followingCount = nextFollowingCount,
                        ![ev.followedId].followersCount = nextFollowersCount]

\* One delivery of a change event of users/{followerId}/following/{followedId}:
\* an update returns at once; a create or delete runs the transaction. If the
\* transaction throws, the error is rethrown and the event is delivered again.
onFollowUser(e) ==
  /\ followHandled[e] < MaxDeliveries
  /\ LET ev == followEvents[e]
         wasCreated == ev.kind = "created"
         wasDeleted == ev.kind = "deleted"
     IN IF ~wasCreated /\ ~wasDeleted
        THEN /\ followHandled' = [followHandled EXCEPT ![e] = @ + 1]
             /\ users' = users
        ELSE \/ /\ users' = FollowTransaction(ev)
                /\ followHandled' = [followHandled EXCEPT ![e] = @ + 1]
             \/ UNCHANGED <<users, followHandled>>
  /\ UNCHANGED <<notFollowVars, following, followEvents>>

\* -------------------------------------------------- follow notifications
\* The parameters onFollowerCreatedCreateNotification passes on for the created
\* event of users/{uid}/followers/{followerUid}. followUser writes that mirror
\* in the batch that writes the following edge, so its created events are the
\* created events of followEvents.
followNotificationParams(e) ==
  [targetUserId |-> followEvents[e].followedId,
   actorId |-> followEvents[e].followerId,
   type |-> "follow", postId |-> "null", eventId |-> <<"follow", e>>]

\* One delivery of a follower-created event, up to the answer of the dedupe
\* query: the handler returns on a self, invalid or duplicate notification and
\* goes on to the create otherwise.
onFollowerCreatedCreateNotification(e) ==
  /\ followEvents[e].kind = "created"
  /\ CopiesIn(e, followNotifStarted) < MaxDeliveries
  /\ followNotifStarted' = followNotifStarted (+) One(e)
  /\ \E scanFails \in BOOLEAN :
       followNotifRuns' =
         IF dedupeDecision(notifItems, followNotificationParams(e), now, scanFails)
              = "create"
         THEN followNotifRuns (+) One(e)
         ELSE followNotifRuns
  /\ UNCHANGED <<modVars, likeVars, followVars, commentVars, adminNotifyVars, auditVars, callVars>>

\* The rest of the handler: docRef.create under the event id, or the create
\* throws and the handler rethrows (the event is delivered again).
createFollowNotification(e) ==
  /\ BagIn(e, followNotifRuns)
  /\ followNotifRuns' = followNotifRuns (-) One(e)
  /\ \/ notifItems' = createNotificationDoc(notifItems, followNotificationParams(e), now)
     \/ notifItems' = notifItems
  /\ UNCHANGED <<modVars, followVars, commentVars, adminNotifyVars, auditVars, callVars,
                 followNotifStarted, likeCount,
                 likes, likeEvents, likeHandled, now>>

\* ------------------------------------- administrator decision notifications
asString(value) == IF trim(value) # <<>> THEN trim(value) ELSE Null

\* One delivery of the created event of a postEvents document, up to the read
\* of the post: the handler returns on another event type, a missing actorId,
\* a missing post or a missing authorId, and goes on to the create otherwise.
onAdminModerationEventNotifyAuthor(ev) ==
  /\ CopiesIn(ev.id, adminNotifyStarted) < MaxDeliveries
  /\ BagCardinality(adminNotifyRuns) < MaxInFlight
  /\ adminNotifyStarted' = adminNotifyStarted (+) One(ev.id)
  /\ adminNotifyRuns' =
       IF ev.type # "approved" /\ ev.type # "rejected" THEN adminNotifyRuns
       ELSE IF ev.actorId = "" THEN adminNotifyRuns
       ELSE IF ~post.exists THEN adminNotifyRuns
       ELSE IF post.authorId = "none" THEN adminNotifyRuns
       ELSE adminNotifyRuns (+)
              One([notifType |-> IF ev.type = "approved" THEN "post_admin_approved"
                                 ELSE "post_admin_rejected",
                   actorId |-> ev.actorId, authorId |-> post.authorId,
                   rejectionReason |-> asString(post.rejectionReason)])
  /\ lastAnswers' = NoAnswers
  /\ UNCHANGED <<likeVars, followVars, commentVars, followNotifVars, auditVars, callVars, post,
                 postEvents, adminNotif, userNotifs, events, auditEvents, invs, lastOutcome,
                 statusBy>>

\* notifRef.set(payload): what an overwriting write would do to the collection.
notifRefSet(docs, doc) == SetDoc(docs, doc)

\* notifRef.create(payload): the document is written only when no document
\* has its id; an existing document is left as it is (ALREADY_EXISTS).
notifRefCreate(docs, doc) == IF DocExists(docs, doc.id) THEN docs ELSE docs \cup {doc}

\* The rest of the handler: notifRef.create under <type>_<postId> in the
\* author's items. The create succeeds ("created"), answers ALREADY_EXISTS
\* and the handler returns ("already_exists"), or throws another error and the
\* handler rethrows ("create_failed").
createAdminDecisionNotification(run) ==
  /\ BagIn(run, adminNotifyRuns)
  /\ adminNotifyRuns' = adminNotifyRuns (-) One(run)
  /\ LET notifId == userNotificationDocId(run.notifType, PostId)
         payload == [id |-> notifId, type |-> run.notifType, postId |-> PostId,
                     actorId |-> run.actorId, read |-> FALSE,
                     reason |-> IF run.notifType = "post_admin_rejected"
                                THEN run.rejectionReason ELSE Null]
     IN \/ /\ userNotifs' = notifRefCreate(userNotifs, payload)
           /\ lastOutcome' = IF DocExists(userNotifs, notifId) THEN "already_exists"
                             ELSE "created"
        \/ /\ userNotifs' = userNotifs
           /\ lastOutcome' = "create_failed"
  /\ lastAnswers' = NoAnswers
  /\ UNCHANGED <<likeVars, followVars, commentVars, followNotifVars, auditVars, callVars,
                 adminNotifyStarted, post, postEvents, adminNotif, events, auditEvents, invs,
                 statusBy>>

\* ------------------------------------------------------- audit reactors
\* A run of an audit reactor on the change event eventId that still has the
\* events of `todo` to append.
AuditRun(reactor, eventId, todo) ==
  [reactor |-> reactor, eventId |-> eventId, todo |-> todo]

\* One delivery of a change event to a reactor: the run it starts waits on its
\* first addPostEvent; a delivery on which the reactor appends nothing returns
\* at once and leaves no trace.
AuditDeliver(reactor, e, todo) ==
  /\ CopiesIn(<<reactor, e>>, auditStarted) < MaxDeliveries
  /\ BagCardinality(auditRuns) < MaxInFlight
  /\ auditStarted' = IF todo = <<>> THEN auditStarted
                     ELSE auditStarted (+) One(<<reactor, e>>)
  /\ auditRuns' = IF todo = <<>> THEN auditRuns
                  ELSE auditRuns (+) One(AuditRun(reactor, e, todo))
  /\ lastAnswers' = NoAnswers
  /\ UNCHANGED <<likeVars, followVars, commentVars, followNotifVars, adminNotifyVars, callVars,
                 post, postEvents, adminNotif, userNotifs, events, auditEvents, invs,
                 lastOutcome, statusBy>>

\* onDocumentCreated('posts/{postId}'): a created event, then a submitted
\* event when the post is created in pending.
onPostCreatedWriteEvents(e) ==
  /\ auditEvents[e].kind = "created"
  /\ AuditDeliver("onPostCreatedWriteEvents", e, createdReactorAppends(auditEvents[e]))

\* onDocumentWritten('posts/{postId}'): a submitted event on an update that
\* enters pending; it is delivered creations too and returns on them.
onPostWrittenWriteSubmittedEvent(e) ==
  AuditDeliver("onPostWrittenWriteSubmittedEvent", e,
               writtenReactorAppends(auditEvents[e]))

\* The documents of postEvents that addPostEvent added.
AddedEvents == {x \in postEvents : x.id[2] = "added"}

\* The fresh id collection.add gives a document of the given type.
AddedId(type) ==
  <<Cardinality({x \in AddedEvents : x.type = type}) + 1, "added", type>>

\* addPostEvent: collection.add writes a new document under a fresh id, with
\* actorId the post's authorId (or 'system'); or the add throws, the reactor
\* logs and rethrows, and the run is over.
addPostEvent(run) ==
  /\ BagIn(run, auditRuns)
  /\ LET ev == auditEvents[run.eventId]
         actorId == IF ev.after.authorId = "none" THEN "system" ELSE ev.after.authorId
         rest == Tail(run.todo)
     IN \/ /\ postEvents' = postEvents \cup
                  {[id |-> AddedId(Head(run.todo)),
                    type |-> Head(run.todo), actorId |-> actorId,
                    createdAt |-> serverTimestamp(postEvents, AddedId(Head(run.todo)))]}
           /\ auditRuns' = IF rest = <<>> THEN auditRuns (-) One(run)
                           ELSE (auditRuns (-) One(run))
                                  (+) One(AuditRun(run.reactor, run.eventId, rest))
        \/ /\ postEvents' = postEvents
           /\ auditRuns' = auditRuns (-) One(run)
  /\ lastAnswers' = NoAnswers
  /\ UNCHANGED <<likeVars, followVars, commentVars, followNotifVars, adminNotifyVars, callVars,
                 auditStarted, post, adminNotif, userNotifs, events, auditEvents, invs,
                 lastOutcome, statusBy>>

\* ------------------------------------------------------ specifications
\* Everything but the post, its audit events and its change events, before
\* any handler has run.
InitStores ==
  /\ adminNotif = NoAdminNotif
  /\ userNotifs = {}
  /\ invs = EmptyBag
  /\ lastOutcome = "none"
  /\ lastAnswers = NoAnswers
  /\ likeCount = 0
  /\ likes = {}
  /\ likeEvents = <<>>
  /\ likeHandled = <<>>
  /\ notifItems = {}
  /\ now = 0
  /\ following = {}
  /\ followEvents = <<>>
  /\ followHandled = <<>>
  /\ commentCount = 0
  /\ comments = {}
  /\ commentEvents = <<>>
  /\ commentHandled = <<>>
  /\ commentOutcome = "none"
  /\ followNotifStarted = EmptyBag
  /\ followNotifRuns = EmptyBag
  /\ adminNotifyStarted = EmptyBag
  /\ adminNotifyRuns = EmptyBag
  /\ auditStarted = EmptyBag
  /\ auditRuns = EmptyBag

\* No classifier call is under examination.
InitOther ==
  /\ InitStores
  /\ callInput = NoCallInput
  /\ callResult = NoCall

InitDocs ==
  /\ post = NoPost
  /\ postEvents = {}
  /\ events = <<>>
  /\ auditEvents = <<>>
  /\ statusBy = "none"
  /\ InitOther

Init == InitDocs /\ users = [u \in UserIds |-> NewUser]

\* The user documents are created at sign-up: either may be missing.
InitFollow == InitDocs /\ users \in [UserIds -> {NoUser, NewUser}]

NextMod ==
  \/ \E withPhoto \in BOOLEAN : CreatePost(withPhoto)
  \/ ApprovePost
  \/ \E hasReason \in BOOLEAN : RejectPost(hasReason)
  \/ ResubmitPost
  \/ AddPhoto
  \/ \E e \in 1..Len(events) : Deliver(e)
  \/ \E inv \in BagToSet(invs) : ClassifyText(inv)
  \/ \E inv \in BagToSet(invs) : ClassifyImage(inv)
  \/ \E inv \in BagToSet(invs) : Transaction(inv)

SpecMod == Init /\ [][NextMod]_vars

\* The author's inbox: the author's writes, the engine, an administrator who
\* rejects (without a reason) so that the post can be resubmitted, and the
\* author who reads the notifications.
NextInbox ==
  \/ \E withPhoto \in BOOLEAN : CreatePost(withPhoto)
  \/ AddPhoto
  \/ RejectPost(FALSE)
  \/ ResubmitPost
  \/ \E n \in userNotifs : markNotificationRead(n.id)
  \/ \E e \in 1..Len(events) : Deliver(e)
  \/ \E inv \in BagToSet(invs) : ClassifyText(inv)
  \/ \E inv \in BagToSet(invs) : ClassifyImage(inv)
  \/ \E inv \in BagToSet(invs) : Transaction(inv)

SpecInbox == Init /\ [][NextInbox]_vars

\* The review queue: the author's writes, the engine and the administrator
\* who reads the queue.
NextReviewQueue ==
  \/ \E withPhoto \in BOOLEAN : CreatePost(withPhoto)
  \/ AddPhoto
  \/ \E hasReason \in BOOLEAN : RejectPost(hasReason)
  \/ ResubmitPost
  \/ markAdminNotificationRead
  \/ \E e \in 1..Len(events) : Deliver(e)
  \/ \E inv \in BagToSet(invs) : ClassifyText(inv)
  \/ \E inv \in BagToSet(invs) : ClassifyImage(inv)
  \/ \E inv \in BagToSet(invs) : Transaction(inv)

SpecReviewQueue == Init /\ [][NextReviewQueue]_vars

NextLikes ==
  \/ \E withPhoto \in BOOLEAN : CreatePost(withPhoto)
  \/ \E userId \in UserIds : toggleLike(userId)
  \/ \E e \in 1..Len(likeEvents) : onLikeCreated(e)
  \/ \E e \in 1..Len(likeEvents) : onLikeDeleted(e)
  \/ Tick

SpecLikes == Init /\ [][NextLikes]_vars

NextComments ==
  \/ \E withPhoto \in BOOLEAN : CreatePost(withPhoto)
  \/ \E userId \in UserIds : addComment(userId)
  \/ \E commentId \in comments : deleteComment(commentId)
  \/ \E e \in 1..Len(commentEvents) : onCommentCreated(e)
  \/ \E e \in 1..Len(commentEvents) : onCommentDeleted(e)

SpecComments == Init /\ [][NextComments]_vars

\* The comments that are made and the handler of their created events, which
\* notifies the author.
NextCommentNotify ==
  \/ \E withPhoto \in BOOLEAN : CreatePost(withPhoto)
  \/ \E userId \in UserIds : addComment(userId)
  \/ \E e \in 1..Len(commentEvents) : onCommentCreated(e)

SpecCommentNotify == Init /\ [][NextCommentNotify]_vars

NextFollow ==
  \/ \E a \in UserIds : \E b \in UserIds : followUser(a, b)
  \/ \E a \in UserIds : \E b \in UserIds : unfollowUser(a, b)
  \/ \E e \in 1..Len(followEvents) : onFollowUser(e)

SpecFollow == InitFollow /\ [][NextFollow]_vars

\* The follow counters among three users: the author and two others, all
\* signed up, counters at 0.
FollowUserIds == UserIds \cup {"u2"}

InitFollowSums == InitDocs /\ users = [u \in FollowUserIds |-> NewUser]

NextFollowSums ==
  \/ \E a \in FollowUserIds : \E b \in FollowUserIds : followUser(a, b)
  \/ \E a \in FollowUserIds : \E b \in FollowUserIds : unfollowUser(a, b)
  \/ \E e \in 1..Len(followEvents) : onFollowUser(e)

SpecFollowSums == InitFollowSums /\ [][NextFollowSums]_vars

NextFollowNotif ==
  \/ \E a \in UserIds : \E b \in UserIds : followUser(a, b)
  \/ \E a \in UserIds : \E b \in UserIds : unfollowUser(a, b)
  \/ \E e \in 1..Len(followEvents) : onFollowerCreatedCreateNotification(e)
  \/ \E e \in 1..Len(followEvents) : createFollowNotification(e)
  \/ Tick

SpecFollowNotif == Init /\ [][NextFollowNotif]_vars

NextAdminNotify ==
  \/ \E withPhoto \in BOOLEAN : CreatePost(withPhoto)
  \/ \E actorId \in ActorIds : approvePost(actorId)
  \/ \E actorId \in ActorIds : \E hasReason \in BOOLEAN : rejectPost(actorId, hasReason)
  \/ \E e \in 1..Len(events) : Deliver(e)
  \/ \E inv \in BagToSet(invs) : ClassifyText(inv)
  \/ \E inv \in BagToSet(invs) : ClassifyImage(inv)
  \/ \E inv \in BagToSet(invs) : Transaction(inv)
  \/ \E ev \in postEvents : onAdminModerationEventNotifyAuthor(ev)
  \/ \E run \in BagToSet(adminNotifyRuns) : createAdminDecisionNotification(run)

SpecAdminNotify == Init /\ [][NextAdminNotify]_vars

\* A post an administrator decided before the engine looked at it, with the
\* audit event of that decision: approvePost or rejectPost has run once on a
\* freshly created post and no handler has run yet.
DecidedPost(type, hasReason) ==
  [exists |-> TRUE, status |-> type, authorId |-> AuthorId, photo |-> FALSE,
   text |-> "none", image |-> "none",
   rejectionReason |-> IF type = "rejected" /\ hasReason
                       THEN slice(trim(AdminReason), 0, 240) ELSE Null,
   autoModerated |-> FALSE]

InitAdminDecisions ==
  /\ \E type \in {"approved", "rejected"} : \E hasReason \in BOOLEAN :
       \E actorId \in ActorIds :
         /\ post = DecidedPost(type, hasReason)
         /\ postEvents = {[id |-> <<0, "earlier">>, type |-> type, actorId |-> actorId,
                            createdAt |-> 1]}
  /\ events = <<WriteEvent(NoPost, DecidedPost("pending", FALSE))>>
  /\ auditEvents = <<AuditEvent(NoPost, DecidedPost("pending", FALSE))>>
  /\ statusBy = "admin"
  /\ InitOther
  /\ users = [u \in UserIds |-> NewUser]

\* The administrator decisions on an already decided post and the handler
\* that notifies the author of them.
NextAdminDecisions ==
  \/ ApprovePost
  \/ \E hasReason \in BOOLEAN : RejectPost(hasReason)
  \/ \E ev \in postEvents : onAdminModerationEventNotifyAuthor(ev)
  \/ \E run \in BagToSet(adminNotifyRuns) : createAdminDecisionNotification(run)
  \/ \E n \in userNotifs : markNotificationRead(n.id)

SpecAdminDecisions == InitAdminDecisions /\ [][NextAdminDecisions]_vars

\* The writes to the post by its author and the administrator, and the two
\* audit reactors.
NextAudit ==
  \/ \E withPhoto \in BOOLEAN : CreatePost(withPhoto)
  \/ ApprovePost
  \/ \E hasReason \in BOOLEAN : RejectPost(hasReason)
  \/ ResubmitPost
  \/ AddPhoto
  \/ \E e \in 1..Len(auditEvents) : onPostCreatedWriteEvents(e)
  \/ \E e \in 1..Len(auditEvents) : onPostWrittenWriteSubmittedEvent(e)
  \/ \E run \in BagToSet(auditRuns) : addPostEvent(run)

SpecAudit == Init /\ [][NextAudit]_vars

\* A pending post whose document has no string authorId, as it was created.
PostWithoutAuthor(withPhoto) ==
  [exists |-> TRUE, status |-> "pending", authorId |-> "none", photo |-> withPhoto,
   text |-> "none", image |-> "none", rejectionReason |-> Null,
   autoModerated |-> FALSE]

\* The post without authorId has been created and no handler has run yet.
InitNoAuthor ==
  /\ \E withPhoto \in BOOLEAN :
       /\ post = PostWithoutAuthor(withPhoto)
       /\ events = <<WriteEvent(NoPost, PostWithoutAuthor(withPhoto))>>
       /\ auditEvents = <<AuditEvent(NoPost, PostWithoutAuthor(withPhoto))>>
  /\ postEvents = {}
  /\ statusBy = "author"
  /\ InitOther
  /\ users = [u \in UserIds |-> NewUser]

\* The engine and the administrator on that post, and the writes that bring
\* it back to pending or attach a photo.
NextNoAuthor ==
  \/ ApprovePost
  \/ \E hasReason \in BOOLEAN : RejectPost(hasReason)
  \/ ResubmitPost
  \/ AddPhoto
  \/ \E e \in 1..Len(events) : Deliver(e)
  \/ \E inv \in BagToSet(invs) : ClassifyText(inv)
  \/ \E inv \in BagToSet(invs) : ClassifyImage(inv)
  \/ \E inv \in BagToSet(invs) : Transaction(inv)

SpecNoAuthor == InitNoAuthor /\ [][NextNoAuthor]_vars

\* The classifier calls alone: any environment and any response, then one call.
InitClassifier ==
  /\ post = NoPost
  /\ postEvents = {}
  /\ events = <<>>
  /\ auditEvents = <<>>
  /\ statusBy = "none"
  /\ InitStores
  /\ users = [u \in UserIds |-> NewUser]
  /\ callInput \in CallInputs
  /\ callResult = NoCall

NextClassifier == CallText \/ CallImage

SpecClassifier == InitClassifier /\ [][NextClassifier]_vars

\* The notification helper alone: calls with any arguments on the collection
\* the earlier calls left, while the clock advances.
NextNotifyCall ==
  \/ \E params \in NotificationParams : \E scanFails \in BOOLEAN :
       \E createFails \in BOOLEAN : CallCreateNotification(params, scanFails, createFails)
  \/ Tick

SpecNotifyCall == Init /\ [][NextNotifyCall]_vars

\* ----------------------------------------------- moderation: properties
\* A step in which an invocation waiting on a classifier call returns.
ClassifierFailureStep ==
  \E inv \in BagToSet(invs) :
    inv.pc \in {"text", "image"} /\ invs' = invs (-) One(inv)

\* A step in which an invocation leaves its transaction.
TxStep ==
  \E inv \in BagToSet(invs) : inv.pc = "tx" /\ invs' = invs (-) One(inv)

EngineDocs(e) ==
  {x \in postEvents : x.id[2] \notin {"auto", "added", "earlier"} /\ x.id[1] = e}

OutcomeTypes == {"ai_approved", "ai_flagged", "ai_rejected"}

NotifTypeOf(outcomeType) ==
  IF outcomeType = "ai_approved" THEN "post_ai_approved"
  ELSE IF outcomeType = "ai_rejected" THEN "post_ai_rejected"
  ELSE "post_ai_review"

\* C1: a classifier call that fails (the text call, or the image call after
\* the text call answered) ends the attempt with no write: the post with its
\* status and sub-records, the PostEvents, the admin entry and the author's
\* notifications are as before, and no change event is emitted.
C1_FailureWritesNothing ==
  [][ClassifierFailureStep =>
       /\ post' = post
       /\ postEvents' = postEvents
       /\ adminNotif' = adminNotif
       /\ userNotifs' = userNotifs
       /\ events' = events]_vars

C1_Witness ==
  /\ lastOutcome = "failed"
  /\ post.status = "pending"
  /\ post.text = "none"
  /\ postEvents = {}

\* C2: while the status was last written by the engine, approved or rejected
\* implies the text sub-record is checked and, if the post has a photo, the
\* image sub-record is checked.
C2_EngineDecisionIsChecked ==
  (statusBy = "engine" /\ post.status \in {"approved", "rejected"})
    => (post.text # "none" /\ (post.photo => post.image # "none"))

\* The photo was attached after the first snapshot was taken, and the engine
\* decided the post with an image verdict on a later event.
C2_Witness ==
  /\ statusBy = "engine"
  /\ post.status = "approved"
  /\ post.photo
  /\ Len(events) >= 2
  /\ ~events[1].after.photo

\* C3: a transaction writes only if the post it re-read is pending, and the
\* status it writes is approved, rejected or pending; on any other status the
\* post, its PostEvents and the notifications are left as they are.
C3_WritesOnlyPending ==
  [][TxStep =>
       /\ post.status # "pending" =>
            /\ post' = post
            /\ postEvents' = postEvents
            /\ adminNotif' = adminNotif
            /\ userNotifs' = userNotifs
       /\ post' # post =>
            /\ post.status = "pending"
            /\ post'.status \in {"approved", "rejected", "pending"}]_vars

\* An administrator decided the post while an invocation was in flight; the
\* invocation's transaction then returned without a write.
C3_Witness ==
  /\ lastOutcome = "noop"
  /\ statusBy = "admin"
  /\ post.status \in {"approved", "rejected"}
  /\ ~post.autoModerated
  /\ invs = EmptyBag

Rank(d) == IF d = "BLOCK" THEN 3 ELSE IF d = "REVIEW" THEN 2 ELSE IF d = "ALLOW" THEN 1 ELSE 0

\* The greatest of the present verdicts under ALLOW < REVIEW < BLOCK.
MaxVerdict(t, i) == IF Rank(i) > Rank(t) THEN i ELSE t

MappedStatus(d) ==
  IF d = "ALLOW" THEN "approved" ELSE IF d = "BLOCK" THEN "rejected" ELSE "pending"

\* C4: combineDecisions is the maximum of the present verdicts under
\* ALLOW < REVIEW < BLOCK (an absent image verdict is neutral), and the status
\* a transaction writes is the one mapped from the maximum of the verdicts the
\* post then carries.
C4_CombinedIsMaxAndApplied ==
  [][/\ \A t \in Decisions : \A i \in Decisions \cup {"null"} :
          combineDecisions(t, i) = MaxVerdict(t, i)
     /\ (TxStep /\ post' # post) =>
          post'.status =
            MappedStatus(MaxVerdict(post'.text,
                                    IF post'.photo THEN post'.image ELSE "null"))]_vars

C4_Witness ==
  /\ lastOutcome = "applied"
  /\ statusBy = "engine"
  /\ post.photo
  /\ post.text = "ALLOW"
  /\ post.image = "BLOCK"
  /\ post.status = "rejected"

\* C5: for every change event, however often it was delivered, the PostEvents
\* keyed by it are none, or exactly one ai_review_started and one outcome
\* event, and then exactly one author notification of that outcome exists.
C5_OnePairPerEvent ==
  \A e \in 1..Len(events) :
    \/ EngineDocs(e) = {}
    \/ /\ Cardinality(EngineDocs(e)) = 2
       /\ \E s \in EngineDocs(e) : s.type = "ai_review_started"
       /\ \E o \in EngineDocs(e) :
            /\ o.type \in OutcomeTypes
            /\ Cardinality({n \in userNotifs : n.type = NotifTypeOf(o.type)}) = 1

\* A second invocation returned without a write after the first one had
\* written the pair of its event and left the post pending.
C5_Witness ==
  /\ lastOutcome = "noop"
  /\ statusBy = "engine"
  /\ post.status = "pending"
  /\ Len(events) = 1
  /\ Cardinality(EngineDocs(1)) = 2
  /\ invs = EmptyBag

\* C6: a recorded verdict is never replaced: a transaction that finds the
\* post no longer pending, or nothing outstanding on it, commits no write,
\* and no step changes a text or image verdict once it is recorded.
C6_FirstCommitWins ==
  [][/\ (post.text # "none" /\ post'.exists) => post'.text = post.text
     /\ (post.image # "none" /\ post'.exists) => post'.image = post.image
     /\ (TxStep /\ (post.status # "pending"
                      \/ (post.text # "none"
                          /\ (post.photo => post.image # "none")))) =>
          /\ post' = post
          /\ postEvents' = postEvents
          /\ adminNotif' = adminNotif
          /\ userNotifs' = userNotifs]_vars

\* Two invocations were in flight on the pending post; the first committed a
\* decision, the second one's transaction returned without a write.
C6_Witness ==
  /\ lastOutcome = "noop"
  /\ statusBy = "engine"
  /\ post.status \in {"approved", "rejected"}
  /\ post.photo
  /\ post.image # "none"
  /\ Len(events) = 1
  /\ invs = EmptyBag

\* ------------------------------------------------- counters: properties
AllLikeEventsHandled ==
  /\ Len(likeEvents) > 0
  /\ \A e \in 1..Len(likeEvents) : likeHandled[e] >= 1

\* C7: once every like-created and like-deleted event has been handled, in any
\* order and with any duplication, likeCount equals the number of like
\* documents that exist, and it is not negative.
C7_LikeCountEqualsLikes ==
  AllLikeEventsHandled => (likeCount = Cardinality(likes) /\ likeCount >= 0)

\* C8: likeCount, followersCount and followingCount are non-negative in every
\* reachable state.
C8_CountersNonNegative ==
  /\ likeCount >= 0
  /\ \A u \in UserIds :
       users[u].followingCount >= 0 /\ users[u].followersCount >= 0

EachFollowEventHandledOnce ==
  /\ Len(followEvents) > 0
  /\ \A e \in 1..Len(followEvents) : followHandled[e] = 1

\* C9: with both user documents present, once every follow-edge event has been
\* handled (each once, in any order), every user's followingCount is the number
\* of edges it follows and its followersCount the number of edges that follow it.
C9_FollowCountsEqualEdges ==
  ((\A u \in UserIds : users[u].exists) /\ EachFollowEventHandledOnce) =>
    \A u \in UserIds :
      /\ users[u].followingCount = Cardinality({x \in following : x[1] = u})
      /\ users[u].followersCount = Cardinality({x \in following : x[2] = u})

\* The counter after a create (one more) or a delete (one less, not below 0).
NextCount(kind, c) == IF kind = "created" THEN c + 1 ELSE IF c > 0 THEN c - 1 ELSE 0

\* C10: a step changes the user documents only by writing both counters of one
\* handled create or delete event, the follower's followingCount and the
\* followed user's followersCount, and only if both documents exist; no user
\* document comes into existence.
C10_BothCountersOrNeither ==
  [][/\ \A u \in UserIds : users'[u].exists = users[u].exists
     /\ users' # users =>
          \E e \in 1..Len(followEvents) :
            LET ev == followEvents[e]
            IN /\ followHandled' = [followHandled EXCEPT ![e] = @ + 1]
               /\ ev.kind \in {"created", "deleted"}
               /\ users[ev.followerId].exists
               /\ users[ev.followedId].exists
               /\ users' =
                    [users EXCEPT
                       ![ev.followerId].followingCount = NextCount(ev.kind, @),
                       ![ev.followedId].followersCount = NextCount(ev.kind, @)]]_vars

\* A create event was handled while the followed user's document was missing:
\* the follower's counter is as it was.
C10_Witness ==
  \E e \in 1..Len(followEvents) :
    /\ followEvents[e].kind = "created"
    /\ followHandled[e] >= 1
    /\ users[followEvents[e].followerId].exists
    /\ ~users[followEvents[e].followedId].exists
    /\ users[followEvents[e].followerId].followingCount = 0

\* ------------------------------------------------- comments: properties
\* C11: commentCount is never negative, and every committed transaction of
\* onCommentDeleted leaves max(0, count - 1) of the count it read, whatever
\* other deliveries are handled before and after it.
C11_ClampedDecrementNotLost ==
  [][/\ commentCount' >= 0
     /\ (commentOutcome' = "decremented"
         /\ \E e \in 1..Len(commentEvents) :
              commentHandled' = [commentHandled EXCEPT ![e] = @ + 1]) =>
          commentCount' = (IF commentCount >= 1 THEN commentCount - 1 ELSE 0)]_vars

\* A comment was counted and its deletion was handled by a transaction that
\* committed: the count is back at 0 with no comment left.
C11_Witness ==
  /\ commentOutcome = "decremented"
  /\ commentCount = 0
  /\ comments = {}
  /\ Cardinality({e \in 1..Len(commentEvents) :
                    commentEvents[e].kind = "deleted" /\ commentHandled[e] >= 1}) >= 1
  /\ Cardinality({e \in 1..Len(commentEvents) :
                    commentEvents[e].kind = "created" /\ commentHandled[e] >= 1}) >= 1

AllCommentEventsHandled ==
  /\ Len(commentEvents) > 0
  /\ \A e \in 1..Len(commentEvents) : commentHandled[e] >= 1

\* C12: once every comment-created and comment-deleted event has been handled,
\* in any order and with any duplication, commentCount equals the number of
\* comment documents that exist.
C12_CommentCountEqualsComments ==
  AllCommentEventsHandled => commentCount = Cardinality(comments)

\* ------------------------------------------- notifications: properties
AiNotifTypes == {"post_ai_approved", "post_ai_rejected", "post_ai_review"}

\* C13: of each of the types post_ai_approved, post_ai_rejected and
\* post_ai_review the author has at most one notification for the post, keyed
\* by type and post id, and a transaction of the engine leaves every existing
\* notification as it is, its read flag and its reason included.
C13_OneNotificationPerType ==
  [][/\ \A t \in AiNotifTypes :
          Cardinality({n \in userNotifs' : n.type = t}) <= 1
     /\ \A n \in userNotifs' : n.id = <<n.type, n.postId>>
     /\ TxStep => userNotifs \subseteq userNotifs']_vars

\* Two moderation passes ended in REVIEW; the notification of the first one,
\* read by the author, is still the only one.
C13_Witness ==
  /\ lastOutcome = "applied"
  /\ Cardinality({x \in postEvents : x.type = "ai_flagged"}) = 2
  /\ \E n \in userNotifs : n.type = "post_ai_review" /\ n.read

\* A step in which a transaction of the engine commits its writes.
AppliedStep == TxStep /\ post' # post

\* The post remains pending with one unread review-queue entry for it and one
\* post_ai_review notification for its author.
InReviewAfter ==
  /\ post'.status = "pending"
  /\ adminNotif'.exists
  /\ adminNotif'.type = "post_needs_review"
  /\ adminNotif'.postId = PostId
  /\ ~adminNotif'.read
  /\ Cardinality({n \in userNotifs' : n.type = "post_ai_review"}) = 1

\* C14 as stated: after the engine applies its results to a post whose text
\* verdict is REVIEW, whatever the image verdict, the post is pending with one
\* review-queue entry and one post_ai_review notification.
C14_ReviewAnyImage ==
  [][(AppliedStep /\ post'.text = "REVIEW") => InReviewAfter]_vars

\* C14, amended: the same for a text verdict REVIEW and an image verdict that
\* is absent, ALLOW or REVIEW; an image verdict BLOCK rejects the post.
C14_ReviewUnlessImageBlock ==
  [][(AppliedStep /\ post'.text = "REVIEW") =>
       IF post'.photo /\ post'.image = "BLOCK"
       THEN post'.status = "rejected"
       ELSE InReviewAfter]_vars

\* A second pass ended in REVIEW: the entry is there, unread, and the author
\* has the one post_ai_review notification.
C14_Witness ==
  /\ lastOutcome = "applied"
  /\ post.text = "REVIEW"
  /\ post.photo /\ post.image \in {"ALLOW", "REVIEW"}
  /\ post.status = "pending"
  /\ adminNotif.exists /\ ~adminNotif.read
  /\ Cardinality({x \in postEvents : x.type = "ai_flagged"}) = 2
  /\ Cardinality({n \in userNotifs : n.type = "post_ai_review"}) = 1

\* C15: a transaction that commits on a post without a photo whose text
\* verdict is ALLOW leaves it approved with no rejection reason and with
\* exactly one post_ai_approved notification for the author, and at no time
\* is there more than one.
C15_AllowApproves ==
  [][/\ Cardinality({n \in userNotifs' : n.type = "post_ai_approved"}) <= 1
     /\ (AppliedStep /\ ~post'.photo /\ post'.text = "ALLOW") =>
          /\ post.status = "pending"
          /\ post'.status = "approved"
          /\ post'.rejectionReason = Null
          /\ Cardinality({n \in userNotifs' : n.type = "post_ai_approved"}) = 1]_vars

\* An administrator had rejected the post with a reason; re-submitted, it was
\* approved by the engine and the reason is gone.
C15_Witness ==
  /\ lastOutcome = "applied"
  /\ statusBy = "engine"
  /\ ~post.photo
  /\ post.text = "ALLOW"
  /\ post.status = "approved"
  /\ post.rejectionReason = Null
  /\ \E x \in postEvents : x.type = "rejected"
  /\ Cardinality({n \in userNotifs : n.type = "post_ai_approved"}) = 1

\* The first 240 characters of a string.
Cut240(str) == IF Len(str) > 240 THEN SubSeq(str, 1, 240) ELSE str

\* A transaction commits on a post with a photo whose image verdict is BLOCK
\* and whose text verdict is ALLOW.
ImageBlockStep ==
  AppliedStep /\ post'.photo /\ post'.image = "BLOCK" /\ post'.text = "ALLOW"

TextBlockStep ==
  AppliedStep /\ post'.text = "BLOCK" /\ ~(post'.photo /\ post'.image = "BLOCK")

\* C17: when a transaction commits with text verdict BLOCK and the image is not
\* the blocking factor, the post's rejectionReason is the text classifier's
\* message cut to 240 characters; it is the generic fallback only when the
\* transaction holds no text classifier message.
C17_TextBlockReason ==
  [][TextBlockStep =>
       post'.rejectionReason =
         IF lastAnswers'.text # Null THEN Cut240(lastAnswers'.text)
         ELSE TextFallbackReason]_vars

\* The follow notifications of one actor for one target.
FollowNotifications(actorId, targetUserId) ==
  {n \in notifItems :
     n.type = "follow" /\ n.actorId = actorId /\ n.target = targetUserId}

\* C18: follow notification attempts of one actor for one target that fall
\* within one dedup window leave one notification, whatever the interleaving
\* of their handlers: no two follow notifications of the same actor for the
\* same target are created within DEDUPE_WINDOW_MINUTES of each other.
C18_OneFollowNotificationPerWindow ==
  \A a \in UserIds : \A b \in UserIds :
    \A n \in FollowNotifications(a, b) : \A m \in FollowNotifications(a, b) :
      (n # m /\ n.createdAt <= m.createdAt) =>
        m.createdAt - n.createdAt > DEDUPE_WINDOW_MINUTES

\* The notification types onAdminModerationEventNotifyAuthor writes.
AdminNotifTypes == {"post_admin_approved", "post_admin_rejected"}

\* C19: no notification has its recipient as its actor: not in the author's
\* moderation notifications (recipient: the post's author), and not among the
\* follow, like and comment notifications.
C19_NoSelfNotification ==
  /\ \A n \in userNotifs : n.actorId # post.authorId
  /\ \A n \in notifItems : n.actorId # n.target

\* C20: every administrator decision notification stems from an approved or
\* rejected PostEvent of the matching type whose actor is not "system", and
\* carries that actor.
C20_OnlyHumanDecisionsNotify ==
  \A n \in userNotifs :
    n.type \in AdminNotifTypes =>
      /\ n.actorId # "system"
      /\ \E ev \in postEvents :
           /\ ev.actorId = n.actorId
           /\ ev.type = (IF n.type = "post_admin_approved" THEN "approved"
                         ELSE "rejected")
\* A step in which the create of the handler run `run` ends.
AdminCreateStep(run) == CopiesIn(run, adminNotifyRuns') < CopiesIn(run, adminNotifyRuns)

\* C21: the author has at most one notification of each administrator type
\* for the post, kept under <type>_<postId>; a create that finds the key
\* present (the same event delivered again, or a later decision of the same
\* type) leaves every notification as it is and ends on ALREADY_EXISTS with
\* the handler returning, unless the write itself failed.
C21_OneAdminNotificationPerType ==
  [][/\ \A t \in AdminNotifTypes :
          Cardinality({n \in userNotifs' : n.type = t}) <= 1
     /\ \A n \in userNotifs' :
          n.type \in AdminNotifTypes => n.id = <<n.type, PostId>>
     /\ \A run \in BagToSet(adminNotifyRuns) :
          (AdminCreateStep(run) /\ \E n \in userNotifs : n.id = <<run.notifType, PostId>>)
            => /\ userNotifs' = userNotifs
               /\ lastOutcome' \in {"already_exists", "create_failed"}]_vars

\* Two decisions of the same type were both handled, one of them on two
\* deliveries; the last create found the notification, already read, in place.
C21_Witness ==
  /\ lastOutcome = "already_exists"
  /\ \E e1 \in postEvents : \E e2 \in postEvents :
       /\ e1.id # e2.id /\ e1.type = e2.type /\ e1.actorId # e2.actorId
       /\ CopiesIn(e1.id, adminNotifyStarted) = 2
       /\ CopiesIn(e2.id, adminNotifyStarted) >= 1
       /\ \E n \in userNotifs :
            /\ n.type = (IF e1.type = "approved" THEN "post_admin_approved"
                         ELSE "post_admin_rejected")
            /\ n.read
  /\ adminNotifyRuns = EmptyBag
\* ------------------------------------------------- audit log: properties
\* A step in which the change event e is delivered to the reactor and the
\* reactor goes on to append.
AuditDeliverStep(reactor, e) ==
  CopiesIn(<<reactor, e>>, auditStarted') > CopiesIn(<<reactor, e>>, auditStarted)

\* A step in which the run appends a document to postEvents.
AuditAppendStep(run) ==
  /\ CopiesIn(run, auditRuns') < CopiesIn(run, auditRuns)
  /\ postEvents' # postEvents

\* C22: a creation queues work for the creation reactor only, which appends
\* created and then, for a post created in pending, submitted; an update
\* queues work exactly when it takes status from a non-pending value to
\* pending, and then the update reactor appends one submitted event; an
\* update from pending to pending queues nothing, and the update reactor
\* never appends on a creation. Every appended event carries the author.
C22_AuditEventsAppended ==
  [][/\ (~post.exists /\ post'.exists) =>
          /\ Len(auditEvents') = Len(auditEvents) + 1
          /\ auditEvents'[Len(auditEvents')].kind = "created"
     /\ (post.exists /\ post' # post) =>
          IF post.status # "pending" /\ post'.status = "pending"
          THEN /\ Len(auditEvents') = Len(auditEvents) + 1
               /\ auditEvents'[Len(auditEvents')].kind = "written"
          ELSE auditEvents' = auditEvents
     /\ \A e \in 1..Len(auditEvents) :
          /\ AuditDeliverStep("onPostCreatedWriteEvents", e) =>
               /\ auditEvents[e].kind = "created"
               /\ auditRuns' = auditRuns (+) One(
                    [reactor |-> "onPostCreatedWriteEvents", eventId |-> e,
                     todo |-> IF auditEvents[e].after.status = "pending"
                              THEN <<"created", "submitted">> ELSE <<"created">>])
          /\ AuditDeliverStep("onPostWrittenWriteSubmittedEvent", e) =>
               /\ auditEvents[e].kind = "written"
               /\ auditEvents[e].beforeStatus # "pending"
               /\ auditEvents[e].after.status = "pending"
               /\ auditRuns' = auditRuns (+) One(
                    [reactor |-> "onPostWrittenWriteSubmittedEvent", eventId |-> e,
                     todo |-> <<"submitted">>])
     /\ \A run \in BagToSet(auditRuns) :
          AuditAppendStep(run) =>
            /\ postEvents \subseteq postEvents'
            /\ Cardinality(postEvents') = Cardinality(postEvents) + 1
            /\ \A x \in postEvents' \ postEvents :
                 x.type = run.todo[1] /\ x.actorId = AuthorId]_vars

\* The post was created in pending without a photo, rejected and put back
\* into pending, and a photo was attached while it was pending; each change
\* event was delivered once and its run completed: one created event and two
\* submitted events.
C22_Witness ==
  /\ post.exists /\ post.status = "pending" /\ post.photo
  /\ Len(auditEvents) = 2
  /\ auditRuns = EmptyBag
  /\ BagCardinality(auditStarted) = 2
  /\ Cardinality({x \in postEvents : x.type = "created"}) = 1
  /\ Cardinality({x \in postEvents : x.type = "submitted"}) = 2
\* C23: however often the change events are delivered, the post's history
\* holds at most one created event and at most one submitted event for each
\* entry into pending (the creation in pending and every later update that
\* enters pending).
C23_NoDoubleAppend ==
  /\ Cardinality({x \in AddedEvents : x.type = "created"}) <= 1
  /\ Cardinality({x \in AddedEvents : x.type = "submitted"})
       <= Cardinality({e \in 1..Len(auditEvents) :
                        auditEvents[e].after.status = "pending"})
OutstandingWork ==
  /\ post.exists /\ post.status = "pending"
  /\ (post.text = "none" \/ (post.photo /\ post.image = "none"))

\* C25: a failed attempt (the classifier or the transaction failed) is
\* delivered again: while the post it left pending has a verdict outstanding,
\* an attempt is in flight, so the work cannot be left undone for good.
C25_FailedAttemptIsRetried ==
  (lastOutcome \in {"failed", "tx_failed"} /\ OutstandingWork) => invs # EmptyBag
\* C26: a delivery of a comment-created or comment-deleted event whose
\* counter write failed does not end as a handled delivery: the handler ends
\* with an exception and the event is still to be delivered.
C26_FailedCounterWriteIsRetried ==
  [][\A e \in 1..Len(commentEvents) :
       commentHandled'[e] > commentHandled[e] =>
         commentOutcome' \notin {"increment_failed", "decrement_failed"}]_vars
\* The storage object calls for the guardrail: it was not found, or its size
\* is not positive or is above 5 MiB.
NeedsGuardrail(object) ==
  \/ object.state = "not_found"
  \/ object.state = "present" /\ (object.sizeBytes <= 0 \/ object.sizeBytes > 5242880)

\* The guardrail category that names what is wrong with the object.
ExpectedCategory(object) ==
  IF object.state = "not_found" THEN "guardrail_missing_file"
  ELSE IF object.sizeBytes > 5242880 THEN "guardrail_too_large"
  ELSE "guardrail_invalid_file"

\* A step in which a transaction records the image verdict.
ImageRecordedStep ==
  /\ TxStep /\ lastOutcome' = "applied"
  /\ post.image = "none" /\ post'.image # "none"

\* The pass recorded what the claim asks of a guardrail case: image verdict
\* REVIEW with the category of the object, the text verdict if it was
\* outstanding, and a status that is not approved.
GuardrailRecorded ==
  /\ ImageRecordedStep
  /\ post'.image = "REVIEW"
  /\ lastAnswers'.category = ExpectedCategory(lastAnswers'.object)
  /\ post.text = "none" => post'.text \in Decisions
  /\ post'.status \in {"pending", "rejected"}

Holds(text) ==
  {text[i] : i \in {k \in 2..(Len(text) - 1) :
                      /\ text[k].t = "members"
                      /\ text[k - 1].t = "{"
                      /\ text[k + 1].t = "}"
                      /\ \A j \in 1..(k - 2) : text[j].t # "{"
                      /\ \A j \in (k + 2)..Len(text) : text[j].t # "}"}}

\* The decision members a response carries: those of the object held by the
\* content string of the object held by the body.
DecisionMembers(resp) ==
  UNION {Holds(f.content) : f \in {g \in Holds(resp.respText) : g.typeofContent = "string"}}

\* C28: a call on a response that is not 2xx, that cannot be parsed, or whose
\* decision member is not exactly ALLOW, REVIEW or BLOCK throws; a call that
\* returns a result returns the decision the response carries, never a default.
C28_InvalidResponseThrows ==
  callResult.fn # "none" =>
    LET members == DecisionMembers(callInput.resp)
        valid == /\ callInput.resp.fetch = "ok"
                 /\ \E f \in members : f.decision \in {"ALLOW", "REVIEW", "BLOCK"}
    IN /\ ~valid => callResult.out.kind = "throws"
       /\ callResult.out.kind = "result" =>
            \E f \in members : callResult.out.decision = f.decision

\* A 2xx response whose content parses, but whose decision is in the wrong
\* case, has been turned down by the text call in a configured environment.
C28_Witness ==
  /\ callResult.fn = "text"
  /\ callResult.out.kind = "throws"
  /\ callInput.apiKey /\ callInput.model
  /\ callInput.resp.fetch = "ok"
  /\ \E f \in DecisionMembers(callInput.resp) : f.decision = "allow"

\* ------------------------------------------ moderation: atomic commit
\* The engine's audit events of one pass: ai_review_started and the outcome.
HasEnginePair(docs, outcomeType) ==
  \E started \in docs : \E outcome \in docs :
    /\ started.type = "ai_review_started"
    /\ outcome.type = outcomeType
    /\ started.actorId = "system" /\ outcome.actorId = "system"
    /\ started.id[1] = outcome.id[1]

HasAuthorNotification(docs, type) ==
  \E n \in docs : n.type = type /\ n.postId = PostId /\ n.actorId = "system"

\* A step in which the transaction of an invocation fails.
TxFailedStep == TxStep /\ lastOutcome' = "tx_failed"

\* C29: after every step, a post whose status the engine wrote last has the
\* audit events and the notifications of that decision: approved, rejected or
\* held for review (pending, with its review-queue entry); and a transaction
\* that fails writes no document.
C29_EngineWritesCommitTogether ==
  [][/\ (statusBy' = "engine" /\ post'.status = "approved") =>
          /\ HasEnginePair(postEvents', "ai_approved")
          /\ HasAuthorNotification(userNotifs', "post_ai_approved")
     /\ (statusBy' = "engine" /\ post'.status = "rejected") =>
          /\ HasEnginePair(postEvents', "ai_rejected")
          /\ HasAuthorNotification(userNotifs', "post_ai_rejected")
     /\ (statusBy' = "engine" /\ post'.status = "pending") =>
          /\ HasEnginePair(postEvents', "ai_flagged")
          /\ adminNotif'.exists /\ adminNotif'.postId = PostId
          /\ HasAuthorNotification(userNotifs', "post_ai_review")
     /\ TxFailedStep =>
          /\ post' = post
          /\ postEvents' = postEvents
          /\ adminNotif' = adminNotif
          /\ userNotifs' = userNotifs]_vars

\* The engine approved the post, and the transaction of a later invocation
\* has failed since.
C29_Witness ==
  /\ statusBy = "engine"
  /\ post.status = "approved"
  /\ lastOutcome = "tx_failed"
  /\ HasEnginePair(postEvents, "ai_approved")

\* ----------------------------------------------- review queue: properties
\* A step in which the engine commits a REVIEW decision.
ReviewAppliedStep == AppliedStep /\ post'.status = "pending"

\* C30: when the engine applies a REVIEW decision and the review-queue entry
\* exists, the entry becomes unread, its meta is the categories and score of
\* the current pass and nothing else, and its createdAt is kept; when the
\* entry does not exist it is created unread.
C30_EntryRefreshed ==
  [][ReviewAppliedStep =>
       /\ adminNotif'.exists
       /\ ~adminNotif'.read
       /\ adminNotif'.meta = lastAnswers'.meta
       /\ adminNotif.exists => adminNotif'.createdAt = adminNotif.createdAt]_vars

\* --------------------------------------- moderation: undecided posts
\* A step in which an invocation of the engine ends, whichever way.
InvocationEndsStep ==
  \E inv \in BagToSet(invs) : invs' = invs (-) One(inv)

\* C31: whenever an invocation of the engine for a pending post ends without
\* approving or rejecting it, the post is still pending and the review-queue
\* entry review_<postId> exists for it.
C31_UndecidedPostIsQueued ==
  [][(/\ InvocationEndsStep
      /\ post.exists /\ post.status = "pending"
      /\ post'.status \notin {"approved", "rejected"}) =>
       /\ post'.status = "pending"
       /\ adminNotif'.exists
       /\ adminNotif'.postId = PostId]_vars

\* ------------------------------------------ moderation: rejection reason
\* A step in which the engine commits its writes or an administrator decides.
EngineOrAdminWrite ==
  \/ AppliedStep
  \/ statusBy' = "admin" /\ postEvents' # postEvents

\* C32: after every write of the engine and every decision of an
\* administrator, the post carries a rejectionReason only if its status is
\* rejected.
C32_ReasonOnlyWhenRejected ==
  [][EngineOrAdminWrite =>
       (post'.rejectionReason # Null => post'.status = "rejected")]_vars

\* A call of the notification helper has been made and this is its record.
NotifyCalled == callResult.fn = "createNotificationIfNotDuplicated"

HasItem(targetUserId, eventId) ==
  \E n \in notifItems : n.target = targetUserId /\ n.id = eventId

\* C33: after a call for a follow or like notification whose dedupe query
\* failed, the call has reported created and the notification exists under
\* the event id, unless the create itself failed with an error other than
\* already-exists; and a call throws only when its create failed that way.
C33_ScanFailureStillCreates ==
  NotifyCalled =>
    /\ (/\ callInput.params.type \in {"follow", "like"}
        /\ callInput.scanFails
        /\ ~callInput.createFails) =>
         /\ callResult.out = "created"
         /\ HasItem(callInput.params.targetUserId, callInput.params.eventId)
    /\ callResult.out = "throws" => callInput.createFails

\* A like notification was created although an unread like notification of
\* the same actor on the same post, written in the same minute, was there to
\* be found: the dedupe query of the call had failed.
C33_Witness ==
  /\ NotifyCalled
  /\ callInput.params.type = "like"
  /\ callInput.scanFails
  /\ callResult.out = "created"
  /\ HasItem(callInput.params.targetUserId, callInput.params.eventId)
  /\ \E n \in notifItems :
       /\ n.id # callInput.params.eventId
       /\ n.target = callInput.params.targetUserId
       /\ isSameNotification(n, callInput.params)
       /\ n.createdAt = now

\* C34: a transaction that writes leaves a text or image sub-verdict that was
\* already recorded on the post as it was, writes only sub-verdicts that were
\* missing, and sets the status that follows from combining the decisions on
\* the post afterwards, the stored ones included.
C34_RecordedSubVerdictsKept ==
  [][AppliedStep =>
       /\ hasTextCheckedAt(post) => post'.text = post.text
       /\ hasImageCheckedAt(post) => post'.image = post.image
       /\ post'.text \in Decisions
       /\ post'.photo => post'.image \in Decisions
       /\ post'.status =
            StatusFor(combineDecisions(post'.text,
                                       IF post'.photo THEN post'.image ELSE "null"))]_vars

\* Two passes have written: the first recorded the text verdict REVIEW, the
\* second, after a photo was added, recorded the image verdict ALLOW and the
\* post stayed pending on the stored text verdict.
C34_Witness ==
  /\ lastOutcome = "applied"
  /\ Cardinality({x \in postEvents : x.type = "ai_review_started"}) = 2
  /\ post.text = "REVIEW"
  /\ post.image = "ALLOW"
  /\ post.status = "pending"

\* Nothing is outstanding on the post: the text verdict is recorded and the
\* image verdict is recorded or there is no photo.
NothingOutstanding(data) ==
  /\ hasTextCheckedAt(data)
  /\ extractPhotoStoragePath(data) # "null" => hasImageCheckedAt(data)

\* C35: a write that leaves the post pending with nothing outstanding starts
\* no engine work (no classifier call and no transaction follow from it), and
\* a transaction that finds nothing outstanding on the post changes neither
\* the post nor the PostEvents, the admin entry or the notifications; an
\* engine invocation changes the post only while a verdict is outstanding.
C35_NothingOutstandingNothingDone ==
  [][/\ (post' # post /\ post'.status = "pending" /\ NothingOutstanding(post'))
          => events' = events
     /\ (TxStep /\ NothingOutstanding(post))
          => UNCHANGED <<post, postEvents, adminNotif, userNotifs>>]_vars

\* A rejected post whose text verdict was recorded is back in pending by its
\* author's re-submission, has no photo, and no engine work was started.
C35_Witness ==
  /\ post.status = "pending"
  /\ statusBy = "author"
  /\ NothingOutstanding(post)
  /\ invs = EmptyBag
  /\ \A e \in 1..Len(events) : events[e].kind = "created"

\* C35 as stated: once an outcome of the engine is recorded for the post, no
\* later engine invocation changes the post.
C35_NoChangeAfterOutcome ==
  [][((\E x \in postEvents : x.type \in {"ai_approved", "ai_rejected", "ai_flagged"})
       /\ TxStep) => post' = post]_vars

\* The change event on which the engine starts work is a creation in pending
\* or an update that takes the status from another value to pending.
EntersPending(ev) ==
  /\ ev.after.status = "pending"
  /\ ev.kind = "created" \/ (ev.kind = "written" /\ ev.beforeStatus # "pending")

\* C36: the engine works only on events that enter pending, every invocation
\* in flight was started by the delivery of such an event and a delivery
\* starts one invocation; the update trigger ignores creations; and a write
\* of the engine passes neither trigger, so it starts no further engine work.
C36_EngineWriteStartsNoEngine ==
  [][/\ \A e \in 1..Len(events') : EntersPending(events'[e])
     /\ \A inv \in BagToSet(invs') : inv.eventId \in 1..Len(events')
     /\ BagCardinality(invs') <= BagCardinality(invs) + 1
     /\ (post' # post /\ ~post.exists) =>
          onPostWrittenAiModerateOnPendingTransition(
            Len(events) + 1, WriteEvent(post, post')).pc = "filtered"
     /\ AppliedStep =>
          /\ events' = events
          /\ Triggered(Len(events) + 1, WriteEvent(post, post')).pc = "filtered"]_vars

\* The engine has written REVIEW (pending to pending) for the only event
\* there is, and no invocation is in flight or was started by that write.
C36_Witness ==
  /\ lastOutcome = "applied"
  /\ statusBy = "engine"
  /\ post.status = "pending"
  /\ Len(events) = 1
  /\ invs = EmptyBag

\* One delivery of the comment-created event e is handled in this step.
CommentCreatedHandled(e) ==
  /\ commentEvents' = commentEvents
  /\ commentEvents[e].kind = "created"
  /\ commentHandled' = [commentHandled EXCEPT ![e] = @ + 1]

CommentItems(items, e) == {n \in items : n.id = <<"comment", e>>}

AdminDecides(type) ==
  \E x \in postEvents' \ postEvents : x.id[2] = "auto" /\ x.type = type

\* C38: the status after approvePost / rejectPost is the administrator's
\* decision, whatever it was before, a decision of the engine included; and
\* while the administrator's decision is the last write of the status, a
\* transaction of the engine changes neither the post nor the PostEvents, the
\* admin entry or the notifications.
C38_AdminDecisionStands ==
  [][/\ AdminDecides("approved") => post'.status = "approved" /\ statusBy' = "admin"
     /\ AdminDecides("rejected") => post'.status = "rejected" /\ statusBy' = "admin"
     /\ (statusBy = "admin" /\ \E inv \in BagToSet(invs) : invs' = invs (-) One(inv)) =>
          /\ UNCHANGED <<post, postEvents, adminNotif, userNotifs>>
          /\ statusBy' = "admin"]_vars

\* The engine approved the post, the administrator rejected it, and the
\* transaction of a second invocation found it no longer pending.
C38_Witness ==
  /\ statusBy = "admin"
  /\ post.status = "rejected"
  /\ \E x \in postEvents : x.type = "ai_approved"
  /\ lastOutcome = "noop"
  /\ invs = EmptyBag

RECURSIVE SumOver(_, _)
SumOver(f, S) ==
  IF S = {} THEN 0
  ELSE LET u == CHOOSE x \in S : TRUE IN f[u] + SumOver(f, S \ {u})

\* C39: the followingCount of all users add up to what their followersCount
\* add up to.
C39_FollowSumsEqual ==
  SumOver([u \in DOMAIN users |-> users[u].followingCount], DOMAIN users)
    = SumOver([u \in DOMAIN users |-> users[u].followersCount], DOMAIN users)

\* C40: a transaction that re-reads a pending post without a string authorId
\* writes nothing: the post with its sub-verdicts and status, the PostEvents,
\* the admin entry and the notifications are as before, and the post is
\* still pending with its moderation work outstanding.
C40_NoAuthorNoWrite ==
  [][(TxStep /\ post.status = "pending" /\ post.authorId = "none") =>
       /\ UNCHANGED <<post, postEvents, adminNotif, userNotifs>>
       /\ post'.status = "pending"
       /\ post'.text = "none" \/ (post'.photo /\ post'.image = "none")
       /\ lastOutcome' \in {"noop", "tx_failed"}]_vars

\* The transaction of an invocation that had classified the text (and the
\* photo) of the post without authorId has returned; nothing is recorded.
C40_Witness ==
  /\ post.authorId = "none"
  /\ post.status = "pending"
  /\ post.text = "none"
  /\ lastOutcome = "noop"
  /\ postEvents = {}
  /\ userNotifs = {}
  /\ ~adminNotif.exists
  /\ invs = EmptyBag

====
